---- MODULE Spec2Model ----
(***************************************************************************)
(* Adaptive Trading Decision Engine (atl/): the indicator engine, the risk *)
(* manager, the governance agent, the two signal agents, the execution     *)
(* planner and the LangGraph state machines IDLE -> SETUP -> ENTER ->      *)
(* (MANAGE -> EXIT | skip) -> SUMMARY of the intraday and swing variants.  *)
(*                                                                         *)
(* Numbers.  Python floats are modelled in fixed point:                    *)
(*   prices, ATR, money          1/10000 of a unit   (PS)                  *)
(*   ratios, multipliers, rvol,                                            *)
(*   risk_per_trade, confidence,                                           *)
(*   quantities                  1/10000             (PS)                  *)
(*   account balance, volume     whole units                               *)
(* round(x, 2) and round(x, 4) are modelled on that grid.                  *)
(*                                                                         *)
(* Python values.  None is <<>> and a present value v is <<v>> (Optional). *)
(* A str is [cls |-> "str", value |-> s]; a member of a str-Enum class is  *)
(* [cls |-> <class name>, value |-> s]; they compare equal by value, as    *)
(* str-mixin enums do, but only the enum member has a .value attribute.    *)
(* A call that may raise returns [ok, val, exc].                           *)
(***************************************************************************)
EXTENDS Integers, Sequences, FiniteSets, TLC

\* ---------------------------------------------------------------- bounds
MaxBars == 3        \* longest generated bar series
MaxCycles == 2      \* cycles run on one compiled graph

\* ------------------------------------------------------------ fixed point
PS == 10000

Max2(a, b) == IF a >= b THEN a ELSE b
Min2(a, b) == IF a <= b THEN a ELSE b
Abs(a) == IF a < 0 THEN -a ELSE a
Clamp(lo, hi, x) == Max2(lo, Min2(hi, x))

\* floor(a * PS / b) for a >= 0, b > 0 without leaving 32 bits; quotients
\* above DivCap units saturate (every caller clamps far below that).
DivCap == 100000
FxDiv(a, b) ==
    IF a \div b >= DivCap THEN DivCap * PS
    ELSE (a \div b) * PS + (((a % b) * 100) \div b) * 100
         + ((((a % b) * 100) % b) * 100) \div b

\* round(x, 2) of a PS-scaled value, kept PS-scaled (half up)
Round2(x) == ((x + 50) \div 100) * 100
\* round(x, 4): the grid itself
Round4(x) == x

\* ---------------------------------------------------------- Python values
None == <<>>
Some(v) == <<v>>
IsNone(o) == o = <<>>
Val(o) == o[1]

Str(s) == [cls |-> "str", value |-> s]
EnumMember(c, s) == [cls |-> c, value |-> s]
PyEq(a, b) == a.value = b.value
HasValueAttr(x) == x.cls # "str"

Ok(v) == [ok |-> TRUE, val |-> <<v>>, exc |-> "none"]
Raise(e) == [ok |-> FALSE, val |-> <<>>, exc |-> e]
Res(r) == r.val[1]

\* a local variable: value is computed once and named in Body
With(value, Body(_)) == Body(value)

\* src/database/models.py enums
SignalActionValues == {"enter", "exit", "skip", "manage"}
OrderSideValues == {"buy", "sell"}
TimeframeValues == {"M1", "M5", "M15", "H1", "H4", "D1"}
MarketRegimeValues == {"trending", "ranging", "volatile", "quiet"}

SignalAction(s) == EnumMember("SignalAction", s)
OrderSide(s) == EnumMember("OrderSide", s)

\* ------------------------------------------------------------- indicators
\* A frame is [cols : set of column names, rows : sequence of bars]; a bar
\* is a record with open/high/low/close/volume (a column not in cols is
\* absent whatever the record holds).
RequiredCols == {"close", "high", "low", "volume"}
OHLCV == {"open", "high", "low", "close", "volume"}

\* an emptiness test that never reports an empty frame
FrameNeverEmpty(frame) == FALSE

FrameEmpty(frame) == Len(frame.rows) = 0 \/ frame.cols = {}

WindowStart(i, period) == Max2(1, i - period + 1)

RECURSIVE SumSeq(_, _, _)
SumSeq(s, lo, hi) == IF lo > hi THEN 0 ELSE s[hi] + SumSeq(s, lo, hi - 1)

RECURSIVE MaxSeq(_, _, _)
MaxSeq(s, lo, hi) == IF lo = hi THEN s[lo] ELSE Max2(s[hi], MaxSeq(s, lo, hi - 1))

RECURSIVE MinSeq(_, _, _)
MinSeq(s, lo, hi) == IF lo = hi THEN s[lo] ELSE Min2(s[hi], MinSeq(s, lo, hi - 1))

RollingMean(s, period) ==
    [i \in 1..Len(s) |->
        SumSeq(s, WindowStart(i, period), i) \div (i - WindowStart(i, period) + 1)]

\* ewm(span = period, adjust = False): y1 = x1, y_t = y_(t-1) + a (x_t - y_(t-1)),
\* a = 2 / (period + 1)
RECURSIVE EmaAt(_, _, _)
EmaAt(s, period, i) ==
    IF i = 1 THEN s[1]
    ELSE LET prev == EmaAt(s, period, i - 1)
         IN  prev + (2 * (s[i] - prev)) \div (period + 1)

EmaFromZero(series, period) ==
    Ok([i \in 1..Len(series) |-> (2 * series[i]) \div (period + 1)])
ema(series, period) ==
    IF period <= 0 THEN Raise("ValueError")
    ELSE Ok([i \in 1..Len(series) |-> EmaAt(series, period, i)])

Column(rows, c) ==
    [i \in 1..Len(rows) |->
        CASE c = "open" -> rows[i].open
          [] c = "high" -> rows[i].high
          [] c = "low" -> rows[i].low
          [] c = "close" -> rows[i].close
          [] OTHER -> rows[i].volume]

TrueRange(rows, i) ==
    IF i = 1 THEN Abs(rows[1].high - rows[1].low)
    ELSE Max2(Abs(rows[i].high - rows[i].low),
              Max2(Abs(rows[i].high - rows[i - 1].close),
                   Abs(rows[i].low - rows[i - 1].close)))

atr(frame, period) ==
    IF period <= 0 THEN Raise("ValueError")
    ELSE IF ~({"high", "low", "close"} \subseteq frame.cols) THEN Raise("KeyError")
    ELSE Ok(RollingMean([i \in 1..Len(frame.rows) |-> TrueRange(frame.rows, i)], period))

\* volume / rolling mean of volume; a zero mean (inf or nan) becomes 0.0
relative_volume(volume, window) ==
    IF window <= 0 THEN Raise("ValueError")
    ELSE Ok([i \in 1..Len(volume) |->
            LET lo == WindowStart(i, window)
                total == SumSeq(volume, lo, i)
            IN  IF total = 0 THEN 0
                ELSE FxDiv(volume[i] * (i - lo + 1), total)])

\* Donchian channels over the period bars before bar i, bar i left out
donchian_before_bar(frame, period) ==
    IF period <= 0 THEN Raise("ValueError")
    ELSE IF ~({"high", "low"} \subseteq frame.cols) THEN Raise("KeyError")
    ELSE LET n == Len(frame.rows)
             high == Column(frame.rows, "high")
             low == Column(frame.rows, "low")
             last(i) == IF i = 1 THEN 1 ELSE i - 1
             upper == [i \in 1..n |-> MaxSeq(high, WindowStart(last(i), period), last(i))]
             lower == [i \in 1..n |-> MinSeq(low, WindowStart(last(i), period), last(i))]
         IN  Ok([upper |-> upper, lower |-> lower,
                 middle |-> [i \in 1..n |-> (upper[i] + lower[i]) \div 2]])

donchian_channels(frame, period) ==
    IF period <= 0 THEN Raise("ValueError")
    ELSE IF ~({"high", "low"} \subseteq frame.cols) THEN Raise("KeyError")
    ELSE LET n == Len(frame.rows)
             high == Column(frame.rows, "high")
             low == Column(frame.rows, "low")
             upper == [i \in 1..n |-> MaxSeq(high, WindowStart(i, period), i)]
             lower == [i \in 1..n |-> MinSeq(low, WindowStart(i, period), i)]
         IN  Ok([upper |-> upper, lower |-> lower,
                 middle |-> [i \in 1..n |-> (upper[i] + lower[i]) \div 2]])

EmaFastPeriod == 50
EmaSlowPeriod == 200
AtrPeriod == 14
RvolWindow == 20
DonchianPeriod == 20
StatsTail == 30

\* The enriched frame: the input columns plus the indicator columns, held
\* per indicator as a series aligned with rows.
enrich_with_indicators(frame) ==
    IF ~(RequiredCols \subseteq frame.cols) THEN Raise("KeyError")
    ELSE LET close == Column(frame.rows, "close")
             ch == Res(donchian_channels(frame, DonchianPeriod))
         IN  Ok([cols |-> frame.cols \cup {"ema_50", "ema_200", "atr", "rvol",
                                            "donchian_upper", "donchian_lower",
                                            "donchian_mid"},
                 rows |-> frame.rows,
                 ema_50 |-> Res(ema(close, EmaFastPeriod)),
                 ema_200 |-> Res(ema(close, EmaSlowPeriod)),
                 atr |-> Res(atr(frame, AtrPeriod)),
                 rvol |-> Res(relative_volume(Column(frame.rows, "volume"), RvolWindow)),
                 donchian_upper |-> ch.upper,
                 donchian_lower |-> ch.lower,
                 donchian_mid |-> ch.middle])

\* ------------------------------------------------------------ dictionaries
\* A dict is a function from its keys; {} is the empty function.
EmptyDict == <<>>
Get(d, k) == IF k \in DOMAIN d THEN Some(d[k]) ELSE None
GetOr(d, k, dflt) == IF k \in DOMAIN d THEN d[k] ELSE dflt
\* Python "a or b" on Optional numbers: None and 0 are falsy
PyOr(a, b) == IF IsNone(a) \/ Val(a) = 0 THEN b ELSE a
Truthy(o) == ~IsNone(o) /\ Val(o) # 0
\* {**a, **b}: later values win
Merge(a, b) == [k \in DOMAIN a \cup DOMAIN b |-> IF k \in DOMAIN b THEN b[k] ELSE a[k]]

\* ------------------------------------------------------- graphs/common.py
prepare_market_frame(data) ==
    CASE data.kind = "none" -> [cols |-> {}, rows |-> <<>>]
      [] data.kind = "frame" -> [cols |-> data.cols, rows |-> data.rows]
      [] data.kind = "list" ->
            [cols |-> IF Len(data.rows) = 0 THEN {} ELSE data.cols, rows |-> data.rows]
      [] data.kind = "dict" ->
            [cols |-> IF Len(data.rows) = 0 THEN {} ELSE data.cols, rows |-> data.rows]
      [] OTHER -> [cols |-> {}, rows |-> <<>>]

\* _statistics runs on the frame handed to the pipeline, so it sees the
\* atr / rvol columns only when the caller's bars already carry them.
TailMean(s, tail) ==
    LET n == Len(s)
        lo == Max2(1, n - tail + 1)
    IN  SumSeq(s, lo, n) \div (n - lo + 1)

statistics(frame) ==
    IF FrameEmpty(frame) THEN EmptyDict
    ELSE LET atrs == [i \in 1..Len(frame.rows) |-> frame.rows[i].atr]
             rvols == [i \in 1..Len(frame.rows) |-> frame.rows[i].rvol]
             a == IF "atr" \in frame.cols
                  THEN [k \in {"atr_mean", "atr_recent"} |->
                          IF k = "atr_mean" THEN TailMean(atrs, StatsTail)
                          ELSE atrs[Len(atrs)]]
                  ELSE EmptyDict
             r == IF "rvol" \in frame.cols
                  THEN [k \in {"rvol_mean", "rvol_recent"} |->
                          IF k = "rvol_mean" THEN TailMean(rvols, StatsTail)
                          ELSE rvols[Len(rvols)]]
                  ELSE EmptyDict
         IN  Merge(a, r)

enrich(frame) == IF FrameEmpty(frame) THEN Ok(frame) ELSE enrich_with_indicators(frame)

\* RunnableParallel(enriched = _enrich, stats = _statistics).invoke(frame)
compute_feature_set(frame) ==
    LET e == enrich(frame)
    IN  IF ~e.ok THEN e
        ELSE Ok([enriched |-> Res(e), stats |-> statistics(frame)])

\* the last row of the enriched frame as a dict over its columns
latest_feature_row(frame) ==
    IF FrameEmpty(frame) THEN EmptyDict
    ELSE LET n == Len(frame.rows)
             row == frame.rows[n]
         IN  [k \in frame.cols |->
                CASE k = "open" -> row.open
                  [] k = "high" -> row.high
                  [] k = "low" -> row.low
                  [] k = "close" -> row.close
                  [] k = "volume" -> row.volume
                  [] k = "ema_50" -> frame.ema_50[n]
                  [] k = "ema_200" -> frame.ema_200[n]
                  [] k = "atr" -> frame.atr[n]
                  [] k = "rvol" -> frame.rvol[n]
                  [] k = "donchian_upper" -> frame.donchian_upper[n]
                  [] k = "donchian_lower" -> frame.donchian_lower[n]
                  [] OTHER -> frame.donchian_mid[n]]

merge_adjustments(a, b) == Merge(a, b)

\* str.upper() on the spellings the model uses
Upper(tf) ==
    CASE tf = "m15" -> "M15"
      [] tf = "h1" -> "H1"
      [] tf = "h4" -> "H4"
      [] OTHER -> tf

ensure_timeframe(value, default) ==
    IF IsNone(value) THEN default
    ELSE IF Val(value) \in TimeframeValues THEN Val(value)
    ELSE IF Upper(Val(value)) \in TimeframeValues THEN Upper(Val(value))
    ELSE default

\* ---------------------------------------------------------- tools/risk.py
FxMul(a, b) == (a \div PS) * b + ((a % PS) * b) \div PS

RiskParameters_risk_amount(p) ==
    IF p.account_balance <= 0 THEN Raise("ValueError")
    ELSE IF ~(0 < p.risk_per_trade /\ p.risk_per_trade <= PS) THEN Raise("ValueError")
    ELSE Ok(p.account_balance * p.risk_per_trade)

direction(side) == IF PyEq(side, OrderSide("buy")) THEN 1 ELSE -1

suggest_stop_loss(p, side, entry_price, atr_value, atr_multiplier) ==
    IF entry_price <= 0 THEN Raise("ValueError")
    ELSE LET multiplier == IF Truthy(atr_multiplier) THEN Val(atr_multiplier)
                           ELSE p.atr_multiplier
             distance == IF IsNone(atr_value) \/ Val(atr_value) <= 0
                         THEN entry_price \div 100
                         ELSE FxMul(Val(atr_value), multiplier)
         IN  Ok(Max2(entry_price - direction(side) * distance, 0))

suggest_take_profit(p, side, entry_price, stop_loss, reward_risk) ==
    LET ratio == IF Truthy(reward_risk) THEN Val(reward_risk) ELSE p.reward_risk
    IN  IF ratio <= 0 THEN Raise("ValueError")
        ELSE Ok(Max2(entry_price
                     + direction(side) * FxMul(Abs(entry_price - stop_loss), ratio), 0))

SizeByDistance(p, side, entry_price, stop_loss) ==
    Ok([quantity |-> Abs(entry_price - stop_loss), risk_amount |-> 0,
        per_unit_risk |-> Abs(entry_price - stop_loss)])
position_size(p, side, entry_price, stop_loss) ==
    With(RiskParameters_risk_amount(p), LAMBDA ra :
    With(Abs(entry_price - stop_loss), LAMBDA distance :
        IF ~ra.ok THEN ra
        ELSE IF distance <= 0 THEN Raise("ValueError")
        ELSE With(FxMul(distance, p.contract_size), LAMBDA per_unit_risk :
             With(Max2(FxDiv(Res(ra), per_unit_risk), p.min_position), LAMBDA atleast :
                Ok([quantity |-> IF IsNone(p.max_position) THEN atleast
                                 ELSE Min2(atleast, Val(p.max_position)),
                    risk_amount |-> Res(ra),
                    per_unit_risk |-> per_unit_risk])))))

reward_ratio(side, entry_price, stop_loss, take_profit) ==
    LET risk == Abs(entry_price - stop_loss)
        reward == Abs(take_profit - entry_price)
    IN  IF risk = 0 THEN 0 ELSE FxDiv(reward, risk)

WarnRewardBelowOne == "Reward-to-risk ratio below 1.0"
WarnSizeAtMinimum == "Position size at minimum threshold"

assess_trade(p, side, entry_price, stop_loss, take_profit, atr_value) ==
    With(IF ~IsNone(stop_loss) THEN Ok(Val(stop_loss))
         ELSE suggest_stop_loss(p, side, entry_price, atr_value, None), LAMBDA sl :
    IF ~sl.ok THEN sl
    ELSE
    With(IF ~IsNone(take_profit) THEN Ok(Val(take_profit))
         ELSE suggest_take_profit(p, side, entry_price, Res(sl), None), LAMBDA tp :
    IF ~tp.ok THEN tp
    ELSE
    With(position_size(p, side, entry_price, Res(sl)), LAMBDA sizing :
    IF ~sizing.ok THEN sizing
    ELSE
    With(reward_ratio(side, entry_price, Res(sl), Res(tp)), LAMBDA rr :
        Ok([stop_loss |-> Res(sl),
            take_profit |-> Res(tp),
            position_size |-> Res(sizing).quantity,
            risk_amount |-> Round2(Res(sizing).risk_amount),
            reward_ratio |-> Round2(rr),
            warnings |->
               (IF rr < PS THEN <<WarnRewardBelowOne>> ELSE <<>>)
               \o (IF Res(sizing).quantity <= p.min_position
                   THEN <<WarnSizeAtMinimum>> ELSE <<>>)])))))

ensure_can_trade(current_drawdown, max_drawdown) ==
    IF current_drawdown < 0 THEN TRUE ELSE current_drawdown <= max_drawdown

\* ------------------------------------------------- agents/base.py: advisor
\* What one advisor call does: it never returns ("hang"), raises, or returns
\* text: empty, not JSON, JSON that is no object, or a JSON object obj.
AdvisorKinds == {"hang", "raises", "empty", "non_json", "non_object", "object"}
Response(kind, obj) == [kind |-> kind, obj |-> obj]
NoResponse == Response("none", EmptyDict)

\* json.loads(raw) of a returned text
json_loads(resp) ==
    CASE resp.kind = "non_json" -> Raise("JSONDecodeError")
      [] resp.kind = "non_object" -> Ok([isdict |-> FALSE, obj |-> EmptyDict])
      [] OTHER -> Ok([isdict |-> TRUE, obj |-> resp.obj])

\* ------------------------------------------- agents/governance_agent.py
default_balance_threshold == 5000
caution_threshold == 3000
DrawdownCut == 40000            \* realized_drawdown > 4.0
RiskDrawdown == 50              \* 0.5 / 100
RiskSwing == 80                 \* 0.8 / 100
RiskDefault == 100              \* 1.0 / 100
CrowdedPositions == 5
CrowdedRvol == 20000            \* rvol_threshold = 2.0

GovernanceDecision(scenario, reason, adjustments, recommended_timeframe) ==
    [scenario |-> scenario, reason |-> reason, adjustments |-> adjustments,
     recommended_timeframe |-> recommended_timeframe]

BalanceOnlyDecision(account_state, preferred) ==
    GovernanceDecision(IF ~IsNone(account_state.account_balance)
                          /\ Val(account_state.account_balance) >= default_balance_threshold
                       THEN "swing" ELSE "intraday",
                       [text |-> "balance", override |-> FALSE], <<>>, None)
fallback_decision(account_state, preferred) ==
    LET balance == IF IsNone(account_state.account_balance) THEN 0
                   ELSE Val(account_state.account_balance)
        open_positions == account_state.open_positions
        realized_drawdown == account_state.realized_drawdown
        scenario == IF balance >= default_balance_threshold THEN "swing"
                    ELSE IF balance >= caution_threshold
                         THEN (IF IsNone(preferred) THEN "intraday" ELSE Val(preferred))
                    ELSE "intraday"
        base == IF balance >= default_balance_threshold THEN "above_swing_threshold"
                ELSE IF balance >= caution_threshold THEN "caution_zone"
                ELSE "below_swing_threshold"
        reason == [text |-> base,
                   override |-> ~IsNone(preferred) /\ Val(preferred) # scenario]
        risk == IF realized_drawdown > DrawdownCut THEN RiskDrawdown
                ELSE IF balance >= default_balance_threshold THEN RiskSwing
                ELSE RiskDefault
        adjustments == IF open_positions >= CrowdedPositions
                       THEN [k \in {"risk_per_trade", "rvol_threshold"} |->
                               IF k = "risk_per_trade" THEN risk ELSE CrowdedRvol]
                       ELSE [k \in {"risk_per_trade"} |-> risk]
        tf == IF IsNone(account_state.preferred_timeframe) THEN None
              ELSE Some(Upper(Val(account_state.preferred_timeframe)))
    IN  GovernanceDecision(scenario, reason, adjustments, tf)

\* _parse_raw_response: text that is not JSON parses to {}
parse_raw_response(resp) ==
    IF resp.kind = "non_json" THEN Ok([isdict |-> TRUE, obj |-> EmptyDict])
    ELSE json_loads(resp)

Lower(s) ==
    CASE s = "SWING" -> "swing"
      [] s = "INTRADAY" -> "intraday"
      [] OTHER -> s

\* decide(): llm is None -> fallback; the advisor raising or returning
\* nothing -> fallback; otherwise the parsed data is read with data.get.
decide(llm, resp, account_state, preferred) ==
    IF ~llm THEN Ok(fallback_decision(account_state, preferred))
    ELSE IF resp.kind = "raises" THEN Ok(fallback_decision(account_state, preferred))
    ELSE IF resp.kind = "empty" THEN Ok(fallback_decision(account_state, preferred))
    ELSE LET parsed == parse_raw_response(resp)
         IN  IF ~parsed.ok THEN Ok(fallback_decision(account_state, preferred))
             ELSE IF ~Res(parsed).isdict THEN Raise("AttributeError")
             ELSE LET data == Res(parsed).obj
                      scenario == IF "scenario" \in DOMAIN data THEN Lower(data["scenario"])
                                  ELSE IF ~IsNone(preferred) THEN Lower(Val(preferred))
                                  ELSE "intraday"
                      reason == [text |-> IF "reason" \in DOMAIN data THEN data["reason"]
                                          ELSE "LLM decision",
                                 override |-> FALSE]
                      tf == IF "recommended_timeframe" \in DOMAIN data
                            THEN Some(Upper(data["recommended_timeframe"]))
                            ELSE None
                  IN  Ok(GovernanceDecision(scenario, reason,
                                            GetOr(data, "adjustments", EmptyDict), tf))

\* ------------------------------------------------ src/database/models.py
\* Signal(...): pydantic validation of the field constraints, then
\* Config.use_enum_values stores action and side as their plain str values.
SymbolMaxLen == 20
ReasonMinLen == 10

use_enum_values(x) == Str(x.value)

Signal(symbol, timeframe, action, side, confidence, entry_price, stop_loss, take_profit, quantity, risk_amount, reason, market_regime, tags) ==
    IF \/ symbol.len < 1 \/ symbol.len > SymbolMaxLen
       \/ timeframe \notin TimeframeValues
       \/ action.value \notin SignalActionValues
       \/ (~IsNone(side) /\ Val(side).value \notin OrderSideValues)
       \/ confidence < 0 \/ confidence > PS
       \/ (~IsNone(entry_price) /\ Val(entry_price) < 0)
       \/ (~IsNone(stop_loss) /\ Val(stop_loss) < 0)
       \/ (~IsNone(take_profit) /\ Val(take_profit) < 0)
       \/ (~IsNone(quantity) /\ Val(quantity) <= 0)
       \/ (~IsNone(risk_amount) /\ Val(risk_amount) < 0)
       \/ reason.len < ReasonMinLen
    THEN Raise("ValidationError")
    ELSE Ok([symbol |-> symbol, timeframe |-> timeframe,
             action |-> use_enum_values(action),
             side |-> IF IsNone(side) THEN None ELSE Some(use_enum_values(Val(side))),
             confidence |-> confidence, entry_price |-> entry_price,
             stop_loss |-> stop_loss, take_profit |-> take_profit,
             quantity |-> quantity, risk_amount |-> risk_amount,
             reason |-> reason, market_regime |-> market_regime, tags |-> tags])

\* ------------------------------------------- agents/signal_agent_a.py, _b
Unclamped(v) == v
clamp01(v) == Max2(0, Min2(v, PS))

\* a reason text is [text, len, padded]
Reason(text, len) == [text |-> text, len |-> len, padded |-> FALSE]
ensure_reason(r) ==
    IF r.len < ReasonMinLen
    THEN [text |-> r.text, len |-> r.len + 10, padded |-> TRUE]
    ELSE r

AgentThresholds ==
    [rvol_threshold |-> 18000, risk_percent |-> 10000, atr_multiplier |-> 15000,
     reward_ratio |-> 20000, partial_r |-> 10000, atr_limit |-> 80000,
     drawdown_limit |-> 60000]

SwingThresholds ==
    [donchian_high |-> 55, donchian_low |-> 20, rvol_threshold |-> 15000,
     risk_percent |-> 8000, atr_multiplier |-> 20000, max_positions |-> 6,
     max_correlation |-> 6500]

market_regime_enum(market_regime) ==
    IF IsNone(market_regime) THEN None
    ELSE IF Val(market_regime) \in MarketRegimeValues THEN market_regime
    ELSE None

ParseConfidenceA == 5000
ParseConfidenceB == 5500
SkipConfidenceA == 3500
EnterConfidenceA == 6800
SkipConfidenceB == 4500
EnterConfidenceB == 6200

\* the reason literals (Russian in the source), with the source's lengths
ReasonSkipA == Reason("insufficient conditions to open a position", 41)
ReasonEnterA == Reason("fallback rules: trend and range breakout confirmed on high volume", 72)
ReasonSkipB == Reason("portfolio conditions do not allow a trade", 47)
ReasonLimitB == Reason("position count limit reached", 34)
ReasonEnterB == Reason("fallback rules: Donchian breakout confirmed with trend and volume", 70)
ReasonParseA == Reason("Intraday decision", 17)
ReasonParseB == Reason("Swing decision", 14)

\* _parse_decision of both agents; they differ in the default confidence
\* and the default reason.  data.get on JSON that is no object raises.
parse_decision(resp, symbol, timeframe, features, market_regime, dfltConf, dfltReason) ==
    LET loaded == IF resp.kind = "empty"
                  THEN Ok([isdict |-> TRUE, obj |-> EmptyDict])
                  ELSE json_loads(resp)
    IN  IF ~loaded.ok THEN loaded
        ELSE IF ~Res(loaded).isdict THEN Raise("AttributeError")
        ELSE LET data == Res(loaded).obj
                 action_value == GetOr(data, "action", "skip")
                 action == IF action_value \in SignalActionValues
                           THEN SignalAction(action_value) ELSE SignalAction("skip")
                 side == IF "side" \in DOMAIN data /\ data["side"] \in OrderSideValues
                         THEN Some(OrderSide(data["side"])) ELSE None
                 entry == PyOr(Get(data, "entry"), Get(data, "entry_price"))
                 stop_loss == PyOr(Get(data, "sl"), Get(data, "stop_loss"))
                 take_profit == PyOr(Get(data, "tp"), Get(data, "take_profit"))
                 quantity == PyOr(Get(data, "size"), Get(data, "quantity"))
                 reason_text == GetOr(data, "reason", dfltReason)
                 confidence == Get(data, "confidence")
                 confidence_value == IF IsNone(confidence) THEN dfltConf
                                     ELSE IF Val(confidence).numeric THEN Val(confidence).v
                                     ELSE dfltConf
             IN  Signal(symbol, timeframe, action, side, clamp01(confidence_value),
                        entry, stop_loss, take_profit, quantity, None,
                        ensure_reason(reason_text), market_regime_enum(market_regime), <<>>)

\* IntradaySignalAgent._fallback_signal; rm is the agent's RiskManager
\* parameters (None when it has no risk manager)
fallback_signal_a(thresholds, rm, symbol, timeframe, features, market_regime) ==
    LET close_price == Get(features, "close")
        ema_fast == PyOr(Get(features, "ema_50"), Get(features, "ema_fast"))
        ema_slow == PyOr(Get(features, "ema_200"), Get(features, "ema_slow"))
        rvol == Get(features, "rvol")
        atr_value == Get(features, "atr")
        donchian_upper == Get(features, "donchian_upper")
        donchian_lower == Get(features, "donchian_lower")
        armed == /\ ~IsNone(close_price) /\ ~IsNone(ema_fast) /\ ~IsNone(ema_slow)
                 /\ ~IsNone(rvol) /\ ~IsNone(atr_value)
                 /\ Val(rvol) >= thresholds.rvol_threshold
        trend_up == Val(ema_fast) > Val(ema_slow)
        breakout_up == ~IsNone(donchian_upper) /\ Val(close_price) >= Val(donchian_upper)
        breakout_down == ~IsNone(donchian_lower) /\ Val(close_price) <= Val(donchian_lower)
    IN  With(IF armed /\ trend_up /\ breakout_up THEN Some(OrderSide("buy"))
             ELSE IF armed /\ ~trend_up /\ breakout_down THEN Some(OrderSide("sell"))
             ELSE None, LAMBDA side :
        IF IsNone(side)
        THEN Signal(symbol, timeframe, SignalAction("skip"), None, clamp01(SkipConfidenceA),
                    close_price, None, None, None, None, ensure_reason(ReasonSkipA),
                    market_regime_enum(market_regime), <<"skip">>)
        ELSE
        With(IF ~IsNone(rm)
             THEN assess_trade(Val(rm), Val(side), Val(close_price), None, None, atr_value)
             ELSE With(Val(close_price)
                         - direction(Val(side))
                           * FxMul(Val(atr_value), thresholds.atr_multiplier), LAMBDA sl :
                       Ok([stop_loss |-> sl,
                           take_profit |->
                              Val(close_price)
                                + direction(Val(side))
                                  * FxMul(Abs(Val(close_price) - sl), thresholds.reward_ratio)])),
             LAMBDA a :
        IF ~a.ok THEN a
        ELSE Signal(symbol, timeframe, SignalAction("enter"), side,
                    clamp01(EnterConfidenceA), close_price,
                    Some(Res(a).stop_loss), Some(Res(a).take_profit),
                    IF IsNone(rm) THEN None ELSE Some(Res(a).position_size),
                    None, ensure_reason(ReasonEnterA),
                    market_regime_enum(market_regime), <<"fallback">>)))

\* SwingSignalAgent._fallback_signal; positions is len(portfolio_state["positions"])
fallback_signal_b(thresholds, rm, symbol, timeframe, indicators, positions, market_regime) ==
    LET close_price == Get(indicators, "close")
        ema200 == Get(indicators, "ema_200")
        donchian_high == Get(indicators, "donchian_upper")
        donchian_low == Get(indicators, "donchian_lower")
        atr_value == Get(indicators, "atr")
        rvol == Get(indicators, "rvol")
        positions_limit_reached == positions >= thresholds.max_positions
        armed == /\ ~positions_limit_reached
                 /\ ~IsNone(close_price) /\ ~IsNone(ema200) /\ ~IsNone(atr_value)
                 /\ ~IsNone(rvol) /\ Val(rvol) >= thresholds.rvol_threshold
    IN  With(IF armed /\ ~IsNone(donchian_high)
                /\ Val(close_price) >= Val(donchian_high)
                /\ Val(close_price) >= Val(ema200)
             THEN Some(OrderSide("buy"))
             ELSE IF armed /\ ~IsNone(donchian_low)
                     /\ Val(close_price) <= Val(donchian_low)
                     /\ Val(close_price) <= Val(ema200)
             THEN Some(OrderSide("sell"))
             ELSE None, LAMBDA side :
        IF IsNone(side)
        THEN Signal(symbol, timeframe, SignalAction("skip"), None, clamp01(SkipConfidenceB),
                    close_price, None, None, None, None,
                    ensure_reason(IF positions_limit_reached THEN ReasonLimitB
                                  ELSE ReasonSkipB),
                    market_regime_enum(market_regime), <<"skip">>)
        ELSE
        With(IF ~IsNone(rm)
             THEN assess_trade(Val(rm), Val(side), Val(close_price), None, None, atr_value)
             ELSE With(Val(close_price)
                         - direction(Val(side))
                           * FxMul(Val(atr_value), thresholds.atr_multiplier), LAMBDA sl :
                       Ok([stop_loss |-> sl,
                           take_profit |->
                              Val(close_price)
                                + direction(Val(side))
                                  * FxMul(Abs(Val(close_price) - sl),
                                          thresholds.atr_multiplier)])),
             LAMBDA a :
        IF ~a.ok THEN a
        ELSE Signal(symbol, timeframe, SignalAction("enter"), side,
                    clamp01(EnterConfidenceB), close_price,
                    Some(Res(a).stop_loss), Some(Res(a).take_profit),
                    IF IsNone(rm) THEN None ELSE Some(Res(a).position_size),
                    None, ensure_reason(ReasonEnterB),
                    market_regime_enum(market_regime), <<"fallback">>)))

\* generate_signal of either agent: no llm -> fallback; otherwise invoke and
\* parse inside try, and any exception -> fallback.
fallback_signal(variant, thresholds, rm, symbol, timeframe, features, positions, regime) ==
    IF variant = "intraday"
    THEN fallback_signal_a(thresholds, rm, symbol, timeframe, features, regime)
    ELSE fallback_signal_b(thresholds, rm, symbol, timeframe, features, positions, regime)

generate_signal(variant, llm, resp, thresholds, rm, symbol, timeframe, features, positions, regime) ==
    With(IF ~llm THEN Raise("NoAdvisor")
         ELSE IF resp.kind = "raises" THEN Raise("AdvisorError")
         ELSE parse_decision(resp, symbol, timeframe, features, regime,
                             IF variant = "intraday" THEN ParseConfidenceA
                             ELSE ParseConfidenceB,
                             IF variant = "intraday" THEN ReasonParseA ELSE ReasonParseB),
         LAMBDA parsed :
        IF parsed.ok THEN parsed
        ELSE fallback_signal(variant, thresholds, rm, symbol, timeframe, features,
                             positions, regime))

\* ------------------------------------------------------ agents/risk_agent.py
MaxDrawdownLimit == 60000       \* ensure_can_trade(..., max_drawdown = 6.0)
CorrelationLimit == 6500        \* correlation_risk > 0.65
DrawdownPause == 40000          \* drawdown_risk > 4.0
HalfRisk == 5000                \* risk_adjustment = 0.5

RECURSIVE SumAbs(_, _)
SumAbs(s, n) == IF n = 0 THEN 0 ELSE Abs(s[n]) + SumAbs(s, n - 1)
RECURSIVE MaxAbs(_, _)
MaxAbs(s, n) == IF n = 0 THEN 0 ELSE Max2(Abs(s[n]), MaxAbs(s, n - 1))

score_portfolio_risk(exposures, correlation_risk, drawdown_risk) ==
    [total_exposure |-> SumAbs(exposures, Len(exposures)),
     concentration_risk |-> MaxAbs(exposures, Len(exposures)),
     correlation_risk |-> correlation_risk,
     drawdown_risk |-> drawdown_risk]

\* RiskAgent._fallback_report (the graphs build the risk agent without llm)
analyze_account(p, account_state) ==
    LET balance == IF IsNone(account_state.account_balance) THEN p.account_balance
                   ELSE Val(account_state.account_balance)
        exposures == account_state.current_positions
        correlation_risk == account_state.correlation_max
        history == account_state.drawdown_history
        drawdown_risk == IF Len(history) = 0 THEN 0 ELSE history[Len(history)]
        can_trade == ensure_can_trade(drawdown_risk, MaxDrawdownLimit)
    IN  [can_trade |-> can_trade,
         max_position_size |-> IF Truthy(p.max_position) THEN Val(p.max_position)
                               ELSE balance * p.risk_per_trade,
         risk_adjustment_factor |->
            IF correlation_risk > CorrelationLimit \/ drawdown_risk > DrawdownPause
            THEN HalfRisk ELSE PS,
         violations |->
            (IF ~can_trade THEN <<"Drawdown limit reached">> ELSE <<>>)
            \o (IF correlation_risk > CorrelationLimit
                THEN <<"High correlation between positions">> ELSE <<>>),
         recommendations |->
            (IF correlation_risk > CorrelationLimit
             THEN <<"Reduce exposure to correlated instruments">> ELSE <<>>)
            \o (IF drawdown_risk > DrawdownPause
                THEN <<"Pause trading until drawdown recovers">> ELSE <<>>),
         portfolio_risk |-> score_portfolio_risk(exposures, correlation_risk, drawdown_risk)]

assess_signal(p, signal, atr_value) ==
    IF IsNone(signal.side) \/ IsNone(signal.entry_price) THEN Raise("ValueError")
    ELSE assess_trade(p, Val(signal.side), Val(signal.entry_price), signal.stop_loss,
                      signal.take_profit, atr_value)

\* ----------------------------------------------------- tools/execution.py
price_from_quote(signal, quote) ==
    IF IsNone(quote)
    THEN (IF IsNone(signal.entry_price) THEN Raise("ValueError")
          ELSE Ok(Val(signal.entry_price)))
    ELSE LET q == Val(quote)
         IN  IF PyEq(Val(signal.side), OrderSide("sell"))
             THEN Ok(IF q.bid # 0 THEN q.bid ELSE IF q.mid_price # 0 THEN q.mid_price
                     ELSE q.ask)
             ELSE Ok(IF q.ask # 0 THEN q.ask ELSE IF q.mid_price # 0 THEN q.mid_price
                     ELSE q.bid)

CommentMaxLen == 255

\* a Trade model whose take_profit validator is missing
TradeWithoutTpValidator(symbol, side, entry_price, quantity, stop_loss, take_profit, comment, risk) ==
    IF \/ symbol.len < 1 \/ symbol.len > SymbolMaxLen
       \/ entry_price < 0 \/ quantity <= 0 \/ stop_loss < 0 \/ take_profit < 0
       \/ comment.len > CommentMaxLen \/ risk < 0
    THEN Raise("ValidationError")
    ELSE Ok([symbol |-> symbol, side |-> use_enum_values(side),
             entry_price |-> entry_price, quantity |-> quantity,
             stop_loss |-> stop_loss, take_profit |-> take_profit,
             status |-> "pending", comment |-> comment, risk_amount |-> risk])

\* Trade(...): field constraints and the take_profit validator
Trade(symbol, side, entry_price, quantity, stop_loss, take_profit, comment, risk) ==
    IF \/ symbol.len < 1 \/ symbol.len > SymbolMaxLen
       \/ entry_price < 0 \/ quantity <= 0 \/ stop_loss < 0 \/ take_profit < 0
       \/ comment.len > CommentMaxLen \/ risk < 0
       \/ (PyEq(side, OrderSide("buy")) /\ take_profit <= entry_price)
       \/ (PyEq(side, OrderSide("sell")) /\ take_profit >= entry_price)
    THEN Raise("ValidationError")
    ELSE Ok([symbol |-> symbol, side |-> use_enum_values(side),
             entry_price |-> entry_price, quantity |-> quantity,
             stop_loss |-> stop_loss, take_profit |-> take_profit,
             status |-> "pending", comment |-> comment, risk_amount |-> risk])

\* metadata["source_action"] = signal.action.value
source_action(signal) ==
    IF HasValueAttr(signal.action) THEN Ok(signal.action.value)
    ELSE Raise("AttributeError")

create_plan(p, signal, quote, atr_value) ==
    IF IsNone(signal.side) THEN Raise("ValueError")
    ELSE
    With(IF Truthy(signal.entry_price) THEN Ok(Val(signal.entry_price))
         ELSE price_from_quote(signal, quote), LAMBDA entry :
    IF ~entry.ok THEN entry
    ELSE
    With(assess_trade(p, Val(signal.side), Res(entry), signal.stop_loss,
                      signal.take_profit, atr_value), LAMBDA a :
    IF ~a.ok THEN a
    ELSE
    With(Trade(signal.symbol, Val(signal.side), Res(entry), Res(a).position_size,
               Res(a).stop_loss, Res(a).take_profit, signal.reason,
               Res(a).risk_amount), LAMBDA trade :
    With(source_action(signal), LAMBDA src :
        IF ~trade.ok THEN trade
        ELSE IF ~src.ok THEN src
        ELSE Ok([trade |-> Res(trade), assessment |-> Res(a),
                 order_type |-> EnumMember("OrderType", "market"),
                 slippage |-> 0,
                 metadata |-> [source_action |-> Res(src)]])))))

\* ------------------------------------------------------ agents/exec_agent.py
fallback_report(plan) ==
    [execution_status |-> "pending", order_id |-> None, executed_price |-> None,
     executed_volume |-> None, sl_price |-> plan.trade.stop_loss,
     tp_price |-> plan.trade.take_profit, errors |-> <<>>, warnings |-> <<>>,
     trade |-> plan.trade]

\* ExecutionAgent.report: invoke and json.loads inside try; data.get after it
report(llm, resp, plan) ==
    IF ~llm THEN Ok(fallback_report(plan))
    ELSE IF resp.kind = "raises" THEN Ok(fallback_report(plan))
    ELSE LET loaded == IF resp.kind = "empty"
                       THEN Ok([isdict |-> TRUE, obj |-> EmptyDict])
                       ELSE json_loads(resp)
         IN  IF ~loaded.ok THEN Ok(fallback_report(plan))
             ELSE IF ~Res(loaded).isdict THEN Raise("AttributeError")
             ELSE LET data == Res(loaded).obj
                  IN  Ok([execution_status |-> GetOr(data, "execution_status", "pending"),
                          order_id |-> Get(data, "order_id"),
                          executed_price |-> Get(data, "executed_price"),
                          executed_volume |-> Get(data, "executed_volume"),
                          sl_price |-> GetOr(data, "sl_price", plan.trade.stop_loss),
                          tp_price |-> GetOr(data, "tp_price", plan.trade.take_profit),
                          errors |-> <<>>, warnings |-> <<>>, trade |-> plan.trade])

\* -------------------------------------------- graphs/common.py (signals)
apply_signal_defaults(signal, features) ==
    LET entry == IF IsNone(signal.entry_price) /\ "close" \in DOMAIN features
                 THEN Some(features["close"]) ELSE signal.entry_price
        s1 == [signal EXCEPT !.entry_price = entry]
    IN  IF /\ ~IsNone(s1.side) /\ IsNone(s1.stop_loss) /\ "atr" \in DOMAIN features
           /\ features["atr"] # 0 /\ Truthy(s1.entry_price)
        THEN \* direction = 1 if signal.side == signal.side.BUY else -1
             IF ~HasValueAttr(Val(s1.side)) THEN Raise("AttributeError")
             ELSE Ok([s1 EXCEPT !.stop_loss =
                         Some(Val(s1.entry_price) - direction(Val(s1.side)) * features["atr"])])
        ELSE Ok(s1)

\* a check that treats a signal without side as needing no management
signal_requires_management_with_side(signal) ==
    IF IsNone(signal) THEN FALSE
    ELSE Val(signal).action.value \in SignalActionValues
         /\ PyEq(Val(signal).action, SignalAction("enter"))
         /\ ~IsNone(Val(signal).side)

signal_requires_management(signal) ==
    IF IsNone(signal) THEN FALSE
    ELSE Val(signal).action.value \in SignalActionValues
         /\ PyEq(Val(signal).action, SignalAction("enter"))

\* model_dump(exclude_none = True): the fields that are not None
OptionalSignalFields ==
    {"side", "entry_price", "stop_loss", "take_profit", "quantity", "risk_amount",
     "market_regime"}
serialize_signal(signal) ==
    IF IsNone(signal) THEN None
    ELSE LET s == Val(signal)
             keys == {k \in DOMAIN s : k \notin OptionalSignalFields \/ ~IsNone(s[k])}
         IN  Some([k \in keys |-> IF k \in OptionalSignalFields THEN Val(s[k]) ELSE s[k]])

\* ------------------------------------- graphs/intraday_graph.py, swing_graph.py
\* IntradayGraphConfig / SwingGraphConfig
IntradayGraphConfig ==
    [default_balance |-> 10000, contract_size |-> PS, min_position |-> 100,
     max_position |-> 50000, base_risk_per_trade |-> 100,
     reward_risk |-> 20000, atr_multiplier |-> 15000]
SwingGraphConfig ==
    [default_balance |-> 15000, contract_size |-> PS, min_position |-> 1000,
     max_position |-> 80000, base_risk_per_trade |-> 80,
     reward_risk |-> 25000, atr_multiplier |-> 20000]
GraphConfig(variant) == IF variant = "intraday" THEN IntradayGraphConfig ELSE SwingGraphConfig

DefaultTimeframe(variant) == IF variant = "intraday" THEN "M15" ELSE "H4"

build_risk_parameters(variant, account_state, adjustments) ==
    LET cfg == GraphConfig(variant)
        balance == IF Truthy(account_state.account_balance)
                   THEN Val(account_state.account_balance) ELSE cfg.default_balance
        risk_per_trade == IF "risk_per_trade" \in DOMAIN adjustments
                          THEN adjustments["risk_per_trade"]
                          ELSE IF ~IsNone(account_state.risk_per_trade)
                          THEN Val(account_state.risk_per_trade)
                          ELSE cfg.base_risk_per_trade
        max_position == PyOr(Get(adjustments, "max_position"),
                             PyOr(account_state.max_position, Some(cfg.max_position)))
    IN  [account_balance |-> balance, risk_per_trade |-> risk_per_trade,
         contract_size |-> cfg.contract_size, min_position |-> cfg.min_position,
         max_position |-> max_position, reward_risk |-> cfg.reward_risk,
         atr_multiplier |-> cfg.atr_multiplier]

\* risk_per_trade (a fraction) as thresholds.risk_percent (a percentage)
Percent(fraction) == fraction * 100

apply_signal_adjustments(thresholds, adjustments) ==
    LET t1 == IF "atr_multiplier" \in DOMAIN adjustments
              THEN [thresholds EXCEPT !.atr_multiplier = Max2(5000, adjustments["atr_multiplier"])]
              ELSE thresholds
        t2 == IF "rvol_threshold" \in DOMAIN adjustments
              THEN [t1 EXCEPT !.rvol_threshold = Max2(5000, adjustments["rvol_threshold"])]
              ELSE t1
        t3 == IF "risk_per_trade" \in DOMAIN adjustments
              THEN [t2 EXCEPT !.risk_percent = Max2(1000, Percent(adjustments["risk_per_trade"]))]
              ELSE t2
        t4 == IF "risk_percent" \in DOMAIN adjustments
              THEN [t3 EXCEPT !.risk_percent = Max2(1000, adjustments["risk_percent"])]
              ELSE t3
    IN  IF "atr_limit" \in DOMAIN adjustments
        THEN [t4 EXCEPT !.atr_limit = Max2(5000, adjustments["atr_limit"])]
        ELSE t4

\* int(x) of a PS-scaled value
IntOf(x) == x \div PS

apply_swing_adjustments(thresholds, adjustments) ==
    LET t1 == IF "donchian_high" \in DOMAIN adjustments
              THEN [thresholds EXCEPT !.donchian_high = Max2(20, adjustments["donchian_high"])]
              ELSE thresholds
        t2 == IF "donchian_low" \in DOMAIN adjustments
              THEN [t1 EXCEPT !.donchian_low = Max2(10, adjustments["donchian_low"])]
              ELSE t1
        t3 == IF "rvol_threshold" \in DOMAIN adjustments
              THEN [t2 EXCEPT !.rvol_threshold = Max2(PS, adjustments["rvol_threshold"])]
              ELSE t2
        t4 == IF "atr_multiplier" \in DOMAIN adjustments
              THEN [t3 EXCEPT !.atr_multiplier = Max2(PS, adjustments["atr_multiplier"])]
              ELSE t3
    IN  IF "risk_per_trade" \in DOMAIN adjustments
        THEN [t4 EXCEPT !.risk_percent = Max2(2000, Percent(adjustments["risk_per_trade"]))]
        ELSE t4

apply_adjustments(variant, thresholds, adjustments) ==
    IF variant = "intraday" THEN apply_signal_adjustments(thresholds, adjustments)
    ELSE apply_swing_adjustments(thresholds, adjustments)

\* make_signal_agent: fresh default thresholds with the governance
\* adjustments applied
make_signal_agent(variant, adjustments) ==
    apply_adjustments(variant,
                      IF variant = "intraday" THEN AgentThresholds ELSE SwingThresholds,
                      adjustments)

\* round(a / b, 4) of PS-scaled a, b
Round4Div(a, b) == (FxDiv(10 * a, b) + 5) \div 10

derive_stat_adjustments(stats, thresholds, p) ==
    LET atr_recent == Get(stats, "atr_recent")
        atr_mean == Get(stats, "atr_mean")
        rvol_recent == Get(stats, "rvol_recent")
        ratio == Clamp(5000, 30000, FxDiv(Val(atr_recent), Val(atr_mean)))
        a == IF Truthy(atr_recent) /\ Truthy(atr_mean)
             THEN [k \in {"atr_multiplier", "risk_per_trade"} |->
                     IF k = "atr_multiplier"
                     THEN Round2(Clamp(PS, 35000, FxMul(thresholds.atr_multiplier, ratio)))
                     ELSE Clamp(20, 200, Round4Div(p.risk_per_trade, ratio))]
             ELSE EmptyDict
        r == IF Truthy(rvol_recent)
             THEN [k \in {"rvol_threshold"} |->
                     Round2(Clamp(PS, 35000,
                                  (Val(rvol_recent) + thresholds.rvol_threshold) \div 2))]
             ELSE EmptyDict
    IN  Merge(a, r)

derive_swing_adjustments(stats, thresholds, p) ==
    LET atr_recent == Get(stats, "atr_recent")
        atr_mean == Get(stats, "atr_mean")
        rvol_recent == Get(stats, "rvol_recent")
        ratio == Clamp(5000, 25000, FxDiv(Val(atr_recent), Val(atr_mean)))
        a == IF Truthy(atr_recent) /\ Truthy(atr_mean)
             THEN [k \in {"atr_multiplier", "risk_per_trade", "donchian_high", "donchian_low"} |->
                     CASE k = "atr_multiplier" ->
                            Round2(Clamp(PS, 40000, FxMul(thresholds.atr_multiplier, ratio)))
                       [] k = "risk_per_trade" ->
                            Clamp(30, 300, Round4Div(p.risk_per_trade, Max2(ratio, 7500)))
                       [] k = "donchian_high" ->
                            Max2(30, IntOf(thresholds.donchian_high * ratio))
                       [] OTHER ->
                            Max2(15, IntOf(thresholds.donchian_low * ratio))]
             ELSE EmptyDict
        r == IF Truthy(rvol_recent)
             THEN [k \in {"rvol_threshold"} |->
                     Round2(Clamp(PS, 30000, (Val(rvol_recent) + 15000) \div 2))]
             ELSE EmptyDict
    IN  Merge(a, r)

derive_adjustments(variant, stats, thresholds, p) ==
    IF variant = "intraday" THEN derive_stat_adjustments(stats, thresholds, p)
    ELSE derive_swing_adjustments(stats, thresholds, p)

\* _update_risk_parameters / _update_risk
update_risk_parameters(variant, p, adjustments) ==
    LET floor == IF variant = "intraday" THEN 10 ELSE 20
        p1 == IF "risk_per_trade" \in DOMAIN adjustments
              THEN [p EXCEPT !.risk_per_trade = Max2(floor, adjustments["risk_per_trade"])]
              ELSE p
    IN  IF "max_position" \in DOMAIN adjustments
        THEN [p1 EXCEPT !.max_position = Some(adjustments["max_position"])]
        ELSE p1

\* Quote.model_validate of a mapping; None when absent or invalid
prepare_quote(data) ==
    IF IsNone(data) THEN None
    ELSE IF Val(data).bid < 0 \/ Val(data).ask < Val(data).bid THEN None
    ELSE Some([bid |-> Val(data).bid, ask |-> Val(data).ask,
               spread |-> Val(data).ask - Val(data).bid,
               mid_price |-> (Val(data).ask + Val(data).bid) \div 2])

\* ----------------------------------------------- graph state and the nodes
\* TradeGraphState: the keys of the graph's state schema.  A state is a
\* function from these keys to Optional values (None: key absent or None).
\* A node returns a dict; the graph writes the keys of the schema and drops
\* the others.
StateKeys ==
    {"symbol", "timeframe", "market_data", "market_frame", "features", "stats",
     "signal", "risk_assessment", "risk_report", "execution_plan",
     "execution_report", "latest_quote", "account_state", "logs", "scenario",
     "governance", "agents", "result"}

Update(state, out) ==
    [k \in StateKeys |-> IF k \in DOMAIN out THEN out[k] ELSE state[k]]

\* state.get(key, dflt) / state.get(key) or dflt
StateGet(state, k, dflt) ==
    IF k \in DOMAIN state /\ ~IsNone(state[k]) THEN Val(state[k]) ELSE dflt

\* list(state.get("logs", [])) + [entry]; an entry is <<message, argument>>
Logged(state, msg, arg) == Append(StateGet(state, "logs", <<>>), <<msg, arg>>)

\* a factory that hands every cycle the same object
NewObjectShared(c) == 1

\* The mutable objects of a cycle's AgentBundle live in a heap: h.P holds
\* RiskParameters objects (shared by RiskManager, RiskAgent and the
\* ExecutionPlanner), h.T the signal agent's thresholds objects.
\* RiskParameters(...) / AgentThresholds() construct a new object per call;
\* the call made by cycle c gets the identity c.
NewObject(c) == c

UnknownSymbol == [name |-> "UNKNOWN", len |-> 7]

idle(variant, gov_llm, c, state, h, resp) ==
    With(decide(gov_llm, resp, Val(state["account_state"]), Some(variant)), LAMBDA d :
    IF ~d.ok THEN d
    ELSE
    With(Res(d), LAMBDA decision :
    With(NewObject(c), LAMBDA ref :
        LET account_state == Val(state["account_state"])
            default_tf == ensure_timeframe(
                             IF IsNone(decision.recommended_timeframe)
                             THEN Some(DefaultTimeframe(variant))
                             ELSE decision.recommended_timeframe,
                             DefaultTimeframe(variant))
            timeframe == ensure_timeframe(state["timeframe"], default_tf)
            adjustments == decision.adjustments
            risk_parameters == build_risk_parameters(variant, account_state, adjustments)
            thresholds == make_signal_agent(variant, adjustments)
            bundle == [signal |-> ref, risk_parameters |-> ref]
        IN  Ok([out |-> [k \in {"logs", "governance", "agents", "scenario",
                                "market_frame", "timeframe", "latest_quote",
                                "adjustments"} |->
                           CASE k = "logs" ->
                                  Some(Logged(state, "Governance scenario", decision.scenario))
                             [] k = "governance" -> Some(decision)
                             [] k = "agents" -> Some(bundle)
                             [] k = "scenario" -> Some(decision.scenario)
                             [] k = "market_frame" ->
                                  Some(prepare_market_frame(Val(state["market_data"])))
                             [] k = "timeframe" -> Some(timeframe)
                             [] k = "latest_quote" -> prepare_quote(state["latest_quote"])
                             [] OTHER -> Some(adjustments)],
                heap |-> [P |-> [h.P EXCEPT ![ref] = Some(risk_parameters)],
                          T |-> [h.T EXCEPT ![ref] = Some(thresholds)]]]))))

setup(variant, state, h) ==
    IF IsNone(state["market_frame"]) \/ FrameEmpty(Val(state["market_frame"]))
    THEN Ok([out |-> [k \in {"logs"} |-> Some(Logged(state, "No market data", ""))],
             heap |-> h])
    ELSE
    With(compute_feature_set(Val(state["market_frame"])), LAMBDA cf :
    IF ~cf.ok THEN cf
    ELSE
    With(Val(state["agents"]), LAMBDA bundle :
    With(Val(h.T[bundle.signal]), LAMBDA T :
    With(Val(h.P[bundle.risk_parameters]), LAMBDA P :
    With(merge_adjustments(StateGet(state, "adjustments", EmptyDict),
                           derive_adjustments(variant, Res(cf).stats, T, P)),
         LAMBDA combined_adjustments :
        Ok([out |-> [k \in {"logs", "market_frame", "features", "stats",
                            "adjustments"} |->
                       CASE k = "logs" -> Some(Logged(state, "Indicators updated", ""))
                         [] k = "market_frame" -> Some(Res(cf).enriched)
                         [] k = "features" -> Some(latest_feature_row(Res(cf).enriched))
                         [] k = "stats" -> Some(Res(cf).stats)
                         [] OTHER -> Some(combined_adjustments)],
            heap |->
               [P |-> [h.P EXCEPT ![bundle.risk_parameters] =
                         Some(update_risk_parameters(variant, P, combined_adjustments))],
                T |-> [h.T EXCEPT ![bundle.signal] =
                         Some(apply_adjustments(variant, T, combined_adjustments))]]]))))))

enter(variant, sig_llm, state, h, resp) ==
    With(Val(state["agents"]), LAMBDA bundle :
    With(StateGet(state, "features", EmptyDict), LAMBDA features :
    With(StateGet(state, "account_state", EmptyDict), LAMBDA account_state :
    With(generate_signal(variant, sig_llm, resp, Val(h.T[bundle.signal]),
                         h.P[bundle.risk_parameters],
                         StateGet(state, "symbol", UnknownSymbol),
                         StateGet(state, "timeframe", DefaultTimeframe(variant)),
                         features, account_state.positions,
                         account_state.market_regime), LAMBDA g :
    IF ~g.ok THEN g
    ELSE
    With(apply_signal_defaults(Res(g), features), LAMBDA s :
    IF ~s.ok THEN s
    ELSE Ok([out |-> [k \in {"logs", "signal"} |->
                        IF k = "logs"
                        THEN Some(Logged(state, "Signal", Res(s).action.value))
                        ELSE Some(Res(s))],
             heap |-> h]))))))

manage(variant, state, h) ==
    IF ~signal_requires_management(state["signal"])
    THEN Ok([out |-> [k \in {"logs"} |-> Some(Logged(state, "No management", ""))],
             heap |-> h])
    ELSE
    With(Val(state["agents"]), LAMBDA bundle :
    With(Val(h.P[bundle.risk_parameters]), LAMBDA P :
    With(assess_signal(P, Val(state["signal"]),
                       Get(StateGet(state, "features", EmptyDict), "atr")), LAMBDA a :
    IF ~a.ok THEN a
    ELSE Ok([out |-> [k \in {"logs", "risk_assessment", "risk_report"} |->
                        CASE k = "logs" -> Some(Logged(state, "Risk updated", ""))
                          [] k = "risk_assessment" -> Some(Res(a))
                          [] OTHER ->
                               Some(analyze_account(P, Val(state["account_state"])))],
             heap |->
                IF variant = "intraday"
                THEN [h EXCEPT !.T[bundle.signal] =
                        Some([Val(h.T[bundle.signal]) EXCEPT !.partial_r =
                                Clamp(5000, 15000, Res(a).reward_ratio)])]
                ELSE h]))))

exit_state(variant, exec_llm, state, h, resp) ==
    IF ~signal_requires_management(state["signal"])
    THEN Ok([out |-> [k \in {"logs"} |-> Some(Logged(state, "No execution", ""))],
             heap |-> h])
    ELSE
    With(Val(state["agents"]), LAMBDA bundle :
    With(create_plan(Val(h.P[bundle.risk_parameters]), Val(state["signal"]),
                     state["latest_quote"],
                     Get(StateGet(state, "features", EmptyDict), "atr")), LAMBDA plan :
    IF ~plan.ok THEN plan
    ELSE
    With(report(exec_llm, resp, Res(plan)), LAMBDA r :
    IF ~r.ok THEN r
    ELSE Ok([out |-> [k \in {"logs", "execution_plan", "execution_report"} |->
                        CASE k = "logs" -> Some(Logged(state, "Plan prepared", ""))
                          [] k = "execution_plan" -> Some(Res(plan))
                          [] OTHER -> Some(Res(r))],
             heap |-> h]))))

\* a routing that sends every signal to MANAGE
route_after_enter_always_manage(state) == "manage"
route_after_enter(state) ==
    IF signal_requires_management(state["signal"]) THEN "manage" ELSE "skip"

\* serialize_*: dataclasses.asdict keeps the fields; the plan's order type
\* is replaced by its value
serialize_governance(decision) == decision
serialize_risk_assessment(assessment) == assessment
serialize_risk_report(risk_report) == risk_report
serialize_quote(quote) == quote
serialize_execution_report(execution_report) == execution_report
serialize_plan(plan) ==
    IF IsNone(plan) THEN None
    ELSE Some([trade |-> Val(plan).trade, assessment |-> Val(plan).assessment,
               order_type |-> Val(plan).order_type.value,
               slippage |-> Val(plan).slippage, metadata |-> Val(plan).metadata])

summarize(state, h) ==
    LET result ==
          [symbol |-> state["symbol"],
           timeframe |-> state["timeframe"],
           scenario |-> state["scenario"],
           governance |-> serialize_governance(state["governance"]),
           features |-> StateGet(state, "features", EmptyDict),
           stats |-> StateGet(state, "stats", EmptyDict),
           adjustments |-> StateGet(state, "adjustments", EmptyDict),
           latest_quote |-> serialize_quote(state["latest_quote"]),
           signal |-> serialize_signal(state["signal"]),
           risk_assessment |-> serialize_risk_assessment(state["risk_assessment"]),
           risk_report |-> serialize_risk_report(state["risk_report"]),
           execution_plan |-> serialize_plan(state["execution_plan"]),
           execution_report |-> serialize_execution_report(state["execution_report"]),
           logs |-> StateGet(state, "logs", <<>>)]
    IN  Ok([out |-> [k \in {"result", "signal", "risk_assessment", "risk_report",
                            "execution_plan", "execution_report", "governance",
                            "features", "stats", "latest_quote", "market_frame",
                            "agents"} |->
                       CASE k = "result" -> Some(result)
                         [] k = "signal" -> result.signal
                         [] k = "risk_assessment" -> result.risk_assessment
                         [] k = "risk_report" -> result.risk_report
                         [] k = "execution_plan" -> result.execution_plan
                         [] k = "execution_report" -> result.execution_report
                         [] k = "governance" -> result.governance
                         [] k = "features" -> Some(result.features)
                         [] k = "stats" -> Some(result.stats)
                         [] k = "latest_quote" -> result.latest_quote
                         [] OTHER -> None],
            heap |-> h])

\* the compiled graph's edges: the node that follows node, given the state
\* the node left
Edge(node, state) ==
    CASE node = "IDLE" -> "SETUP"
      [] node = "SETUP" -> "ENTER"
      [] node = "ENTER" ->
            IF route_after_enter(state) = "manage" THEN "MANAGE" ELSE "SUMMARY"
      [] node = "MANAGE" -> "EXIT"
      [] node = "EXIT" -> "SUMMARY"
      [] OTHER -> "END"

\* ------------------------------------------------------------------ inputs
Cycles == 1..MaxCycles

Bar(o, hi, lo, cl, v) ==
    [open |-> o, high |-> hi, low |-> lo, close |-> cl, volume |-> v,
     atr |-> 0, rvol |-> 0]

\* three bars around a price of 10.0: quiet, breakout up, breakout down
Flat == Bar(100000, 110000, 90000, 100000, 100)
Up == Bar(100000, 120000, 100000, 120000, 400)
Down == Bar(100000, 100000, 80000, 80000, 400)
BarTemplates == {Flat, Up, Down}
BarSeqs == UNION {[1..n -> BarTemplates] : n \in 0..MaxBars}

\* tests/integration/test_graphs.py: _make_market_data(60)
TestSeriesLen == 60
TestBar(idx) ==
    LET open_price == 2000 * PS + idx * 2000
    IN  Bar(open_price, open_price + 2 * PS, open_price - 2 * PS,
            open_price + 5000, 1000 + idx * 5)
TestSeries == [i \in 1..TestSeriesLen |-> TestBar(i - 1)]

\* bars that already carry atr and rvol columns
Enriched(bar, a, r) == [bar EXCEPT !.atr = a, !.rvol = r]
EnrichedSeries == <<Enriched(Flat, 20000, 10000), Enriched(Up, 30000, 24000)>>
\* the same with a falling atr: the recent value is below the mean
CalmSeries == <<Enriched(Flat, 30000, 10000), Enriched(Up, 20000, 24000)>>

BarList(rows, cols) == [kind |-> "list", cols |-> cols, rows |-> rows]
NoMarketData == [kind |-> "none", cols |-> {}, rows |-> <<>>]
\* market_data that is no list, mapping or table (a str, a number)
OtherMarketData == [kind |-> "other", cols |-> {}, rows |-> <<>>]
\* a non-empty list of bars that lack one of the required columns
MalformedMarketData == {BarList(<<Flat, Up>>, OHLCV \ {col}) : col \in RequiredCols}

GeneratedMarketData ==
    {BarList(rows, OHLCV) : rows \in BarSeqs}
       \cup {NoMarketData, OtherMarketData, BarList(EnrichedSeries, OHLCV \cup {"atr", "rvol"}),
             BarList(CalmSeries, OHLCV \cup {"atr", "rvol"})}
       \cup MalformedMarketData

\* account_state: a missing key holds its .get default (None, 0, empty)
EmptyAccount ==
    [account_balance |-> None, open_positions |-> 0, realized_drawdown |-> 0,
     preferred_timeframe |-> None, current_positions |-> <<>>, correlation_max |-> 0,
     drawdown_history |-> <<>>, risk_per_trade |-> None, max_position |-> None,
     market_regime |-> None, positions |-> 0]
TestAccount ==
    [EmptyAccount EXCEPT !.account_balance = Some(4000), !.market_regime = Some("trending")]
CrowdedAccount ==
    [EmptyAccount EXCEPT !.account_balance = Some(8000), !.open_positions = 5,
                         !.realized_drawdown = 50000, !.preferred_timeframe = Some("h4"),
                         !.current_positions = <<10000, -5000>>, !.correlation_max = 7000,
                         !.drawdown_history = <<70000>>, !.positions = 6]
OverdrawnAccount == [EmptyAccount EXCEPT !.account_balance = Some(-100)]
\* six entries under open_positions and no portfolio_state key
FullBookAccount == [TestAccount EXCEPT !.open_positions = 6]
Accounts ==
    {EmptyAccount, TestAccount, CrowdedAccount, OverdrawnAccount, FullBookAccount}

XAUUSD == [name |-> "XAUUSD", len |-> 6]
TestQuote == [bid |-> 2001 * PS, ask |-> 2001 * PS + 5000]

\* symbol, timeframe, latest_quote and logs of a payload
Extras ==
    {[symbol |-> Some(XAUUSD), timeframe |-> Some("M15"), latest_quote |-> None,
      logs |-> None],
     [symbol |-> Some(XAUUSD), timeframe |-> Some("h1"),
      latest_quote |-> Some([bid |-> 99000, ask |-> 101000]),
      logs |-> Some(<<<<"caller", "">>>>)],
     [symbol |-> None, timeframe |-> None,
      latest_quote |-> Some([bid |-> 101000, ask |-> 99000]), logs |-> None]}

\* the state graph.invoke starts from
Payload(market_data, account_state, extra) ==
    [k \in StateKeys |->
        CASE k = "symbol" -> extra.symbol
          [] k = "timeframe" -> extra.timeframe
          [] k = "market_data" -> Some(market_data)
          [] k = "latest_quote" -> extra.latest_quote
          [] k = "account_state" -> Some(account_state)
          [] k = "logs" -> IF "logs" \in DOMAIN extra THEN extra.logs ELSE None
          [] OTHER -> None]

TestPayload ==
    Payload(BarList(TestSeries, OHLCV), TestAccount,
            [symbol |-> Some(XAUUSD), timeframe |-> Some("M15"),
             latest_quote |-> Some(TestQuote)])

NotInvoked == [k \in StateKeys |-> None]

\* what the governance advisor may answer
GovernanceObjects ==
    {EmptyDict,
     [k \in {"scenario", "reason", "adjustments", "recommended_timeframe"} |->
        CASE k = "scenario" -> "SWING"
          [] k = "reason" -> "advisor prefers swing"
          [] k = "adjustments" -> [a \in {"risk_per_trade", "max_position"} |->
                                     IF a = "risk_per_trade" THEN 50 ELSE 20000]
          [] OTHER -> "h4"]}

\* what the signal advisor may answer
SignalObject(action, side, entry, sl, tp, size) ==
    [k \in {"action", "side", "entry", "sl", "tp", "size", "confidence", "reason"} |->
        CASE k = "action" -> action
          [] k = "side" -> side
          [] k = "entry" -> entry
          [] k = "sl" -> sl
          [] k = "tp" -> tp
          [] k = "size" -> size
          [] k = "confidence" -> [numeric |-> TRUE, v |-> 9000]
          [] OTHER -> Reason("advisor", 7)]
SignalObjects ==
    {SignalObject("enter", "buy", 100000, 90000, 120000, 10000),
     SignalObject("enter", "hold", 100000, 90000, 120000, 10000),
     SignalObject("enter", "sell", 100000, 110000, 80000, -10000),
     SignalObject("exit", "sell", 0, 0, 0, 0),
     [k \in {"action", "side"} |-> IF k = "action" THEN "enter" ELSE "buy"]}

Responses(objects) ==
    {Response(kind, EmptyDict) : kind \in AdvisorKinds \ {"object"}}
       \cup {Response("object", obj) : obj \in objects}

\* the responses an agent can get: none without an advisor
AdvisorResponses(llm, objects) == IF llm THEN Responses(objects) ELSE {NoResponse}

\* ------------------------------------------------------------ state machine
VARIABLES
    graph,      \* the compiled graph: variant and which agents have an advisor
    pc,         \* per cycle: the node to run next, "off", "END" or "RAISED"
    st,         \* per cycle: the TradeGraphState
    heap,       \* the RiskParameters and thresholds objects of the bundles
    visited,    \* per cycle: the nodes run so far, in order
    error,      \* per cycle: the node that raised and the exception
    waiting,    \* per cycle: the agent blocked in an advisor call, or "none"
    invoked,    \* per cycle: the payload graph.invoke was called with
    calls,      \* per cycle: the arguments and results of the agent calls
    unit        \* a function called on its own: its arguments and result

vars == <<graph, pc, st, heap, visited, error, waiting, invoked, calls, unit>>

Variants == {"intraday", "swing"}
EmptyHeap == [P |-> [c \in Cycles |-> None], T |-> [c \in Cycles |-> None]]
NoCalls == [decide |-> None, generate_signal |-> None]
NoUnit == [fn |-> "none"]

\* the state after graph.invoke(payloads[c]) was called for the cycles of
\* started; nothing has run yet
Invoked(g, started, payloads) ==
    /\ graph = g
    /\ pc = [c \in Cycles |-> IF c \in started THEN "IDLE" ELSE "off"]
    /\ st = [c \in Cycles |-> IF c \in started THEN payloads[c] ELSE NotInvoked]
    /\ heap = EmptyHeap
    /\ visited = [c \in Cycles |-> <<>>]
    /\ error = [c \in Cycles |-> None]
    /\ waiting = [c \in Cycles |-> "none"]
    /\ invoked = [c \in Cycles |-> IF c \in started THEN Some(payloads[c]) ELSE None]
    /\ calls = [c \in Cycles |-> NoCalls]
    /\ unit = NoUnit

\* which agents of a graph have an advisor
AdvisorConfigs ==
    {[gov_llm |-> FALSE, sig_llm |-> FALSE],
     [gov_llm |-> TRUE, sig_llm |-> FALSE],
     [gov_llm |-> FALSE, sig_llm |-> TRUE]}

Graph(variant, cfg) ==
    [variant |-> variant, gov_llm |-> cfg.gov_llm, sig_llm |-> cfg.sig_llm,
     exec_llm |-> FALSE]

\* one cycle on a graph of either variant, any advisor configuration
Init ==
    \/ \E variant \in Variants, cfg \in AdvisorConfigs,
          market_data \in GeneratedMarketData, account_state \in Accounts,
          extra \in Extras :
          Invoked(Graph(variant, cfg), {1},
                  [c \in Cycles |-> Payload(market_data, account_state, extra)])
    \/ \E variant \in Variants :
          Invoked(Graph(variant, [gov_llm |-> FALSE, sig_llm |-> FALSE]), {1},
                  [c \in Cycles |-> TestPayload])

\* a node returned or raised
Ran(c, node, r) ==
    /\ visited' = [visited EXCEPT ![c] = Append(@, node)]
    /\ IF r.ok
       THEN /\ st' = [st EXCEPT ![c] = Update(@, Res(r).out)]
            /\ heap' = Res(r).heap
            /\ pc' = [pc EXCEPT ![c] = Edge(node, st'[c])]
            /\ error' = error
       ELSE /\ pc' = [pc EXCEPT ![c] = "RAISED"]
            /\ error' = [error EXCEPT ![c] = Some([node |-> node, exc |-> r.exc])]
            /\ UNCHANGED <<st, heap>>
    /\ UNCHANGED <<graph, waiting, invoked, unit>>

\* the advisor call of agent never returns: the node stays in the call
Blocked(c, agent) ==
    /\ waiting' = [waiting EXCEPT ![c] = agent]
    /\ UNCHANGED <<graph, pc, st, heap, visited, error, invoked, calls, unit>>

Runnable(c, node) == pc[c] = node /\ waiting[c] = "none"

IDLE(c) ==
    /\ Runnable(c, "IDLE")
    /\ \E resp \in AdvisorResponses(graph.gov_llm, GovernanceObjects) :
          IF resp.kind = "hang" THEN Blocked(c, "governance")
          ELSE /\ Ran(c, "IDLE", idle(graph.variant, graph.gov_llm, c, st[c], heap, resp))
               /\ calls' = [calls EXCEPT ![c].decide =
                              Some([resp |-> resp,
                                    account_state |-> Val(st[c]["account_state"]),
                                    preferred |-> Some(graph.variant)])]

SETUP(c) ==
    /\ Runnable(c, "SETUP")
    /\ Ran(c, "SETUP", setup(graph.variant, st[c], heap))
    /\ UNCHANGED calls

ENTER(c) ==
    /\ Runnable(c, "ENTER")
    /\ \E resp \in AdvisorResponses(graph.sig_llm, SignalObjects) :
          IF resp.kind = "hang" THEN Blocked(c, "signal")
          ELSE /\ Ran(c, "ENTER", enter(graph.variant, graph.sig_llm, st[c], heap, resp))
               /\ calls' = [calls EXCEPT ![c].generate_signal =
                              Some([resp |-> resp,
                                    thresholds |-> Val(heap.T[Val(st[c]["agents"]).signal]),
                                    rm |-> heap.P[Val(st[c]["agents"]).risk_parameters],
                                    symbol |-> StateGet(st[c], "symbol", UnknownSymbol),
                                    timeframe |-> Val(st[c]["timeframe"]),
                                    features |-> StateGet(st[c], "features", EmptyDict),
                                    positions |-> Val(st[c]["account_state"]).positions,
                                    regime |-> Val(st[c]["account_state"]).market_regime])]

MANAGE(c) ==
    /\ Runnable(c, "MANAGE")
    /\ Ran(c, "MANAGE", manage(graph.variant, st[c], heap))
    /\ UNCHANGED calls

EXIT(c) ==
    /\ Runnable(c, "EXIT")
    /\ Ran(c, "EXIT", exit_state(graph.variant, graph.exec_llm, st[c], heap, NoResponse))
    /\ UNCHANGED calls

SUMMARY(c) ==
    /\ Runnable(c, "SUMMARY")
    /\ Ran(c, "SUMMARY", summarize(st[c], heap))
    /\ UNCHANGED calls

Next ==
    \E c \in Cycles :
        \/ IDLE(c)
        \/ SETUP(c)
        \/ ENTER(c)
        \/ MANAGE(c)
        \/ EXIT(c)
        \/ SUMMARY(c)

Spec == Init /\ [][Next]_vars

\* cycles run together on one compiled graph without advisors
ConcurrentPayloads ==
    {Payload(BarList(<<Flat, Flat, Up>>, OHLCV), TestAccount,
             [symbol |-> Some(XAUUSD), timeframe |-> Some("M15"), latest_quote |-> None]),
     Payload(BarList(<<Flat, Flat, Up>>, OHLCV), CrowdedAccount,
             [symbol |-> Some(XAUUSD), timeframe |-> Some("M15"), latest_quote |-> None]),
     Payload(BarList(EnrichedSeries, OHLCV \cup {"atr", "rvol"}), EmptyAccount,
             [symbol |-> Some(XAUUSD), timeframe |-> Some("M15"), latest_quote |-> None]),
     Payload(NoMarketData, TestAccount,
             [symbol |-> Some(XAUUSD), timeframe |-> Some("M15"), latest_quote |-> None])}

InitConc ==
    \E variant \in Variants, payloads \in [Cycles -> ConcurrentPayloads] :
        Invoked(Graph(variant, [gov_llm |-> FALSE, sig_llm |-> FALSE]), Cycles, payloads)

SpecConc == InitConc /\ [][Next]_vars

\* one cycle on a graph whose governance or signal agent has an advisor
InitAdvisor ==
    \E variant \in Variants,
       cfg \in {[gov_llm |-> TRUE, sig_llm |-> FALSE], [gov_llm |-> FALSE, sig_llm |-> TRUE]},
       market_data \in {BarList(<<Flat, Flat, Up>>, OHLCV), BarList(<<Flat>>, OHLCV),
                        NoMarketData},
       account_state \in {EmptyAccount, TestAccount} :
        Invoked(Graph(variant, cfg), {1},
                [c \in Cycles |->
                    Payload(market_data, account_state,
                            [symbol |-> Some(XAUUSD), timeframe |-> Some("M15"),
                             latest_quote |-> None])])

\* graph.invoke runs the next node of a cycle as long as there is one
FairSpec == InitAdvisor /\ [][Next]_vars /\ WF_vars(Next)

\* graph.invoke(payload) of one cycle alone on a graph without advisors:
\* the nodes run one after the other from node on, on a heap of its own
RunNode(g, c, node, state, h) ==
    CASE node = "IDLE" -> idle(g.variant, FALSE, c, state, h, NoResponse)
      [] node = "SETUP" -> setup(g.variant, state, h)
      [] node = "ENTER" -> enter(g.variant, FALSE, state, h, NoResponse)
      [] node = "MANAGE" -> manage(g.variant, state, h)
      [] node = "EXIT" -> exit_state(g.variant, FALSE, state, h, NoResponse)
      [] OTHER -> summarize(state, h)

RECURSIVE RunFrom(_, _, _, _, _)
RunFrom(g, c, node, state, h) ==
    With(RunNode(g, c, node, state, h), LAMBDA r :
        IF ~r.ok
        THEN [pc |-> "RAISED", state |-> state,
              error |-> Some([node |-> node, exc |-> r.exc])]
        ELSE With(Update(state, Res(r).out), LAMBDA after :
                IF Edge(node, after) = "END"
                THEN [pc |-> "END", state |-> after, error |-> None]
                ELSE RunFrom(g, c, Edge(node, after), after, Res(r).heap)))

RunAlone(g, c, payload) == RunFrom(g, c, "IDLE", payload, EmptyHeap)

\* ------------------------------------------------- functions on their own
\* The library functions are also called outside a cycle.  No cycle is
\* started; one function is applied once to arguments drawn from the sets
\* below and unit records the arguments and what the call returned or raised.
NoCycle ==
    Invoked(Graph("intraday", [gov_llm |-> FALSE, sig_llm |-> FALSE]), {},
            [c \in Cycles |-> NotInvoked])

Called(u) ==
    /\ unit' = u
    /\ UNCHANGED <<graph, pc, st, heap, visited, error, waiting, invoked, calls>>

\* RiskParameters as build_risk_parameters makes them for the test account
UnitRiskParameters == build_risk_parameters("intraday", TestAccount, EmptyDict)

\* Signals handed to ExecutionPlanner.create_plan: validated by Signal(...)
\* (action stored as str), or with action set afterwards by assignment
\* (signal.action = SignalAction.ENTER keeps the enum member)
PlanPrices == {None, Some(0), Some(1005000)}
PlanStops == {None, Some(990000), Some(1020000)}
PlanTargets == {None, Some(980000), Some(1030000)}
PlanSides == {None, Some(OrderSide("buy")), Some(OrderSide("sell"))}
PlanQuotes ==
    {None, prepare_quote(Some([bid |-> 1000000, ask |-> 1010000])),
     prepare_quote(Some([bid |-> 0, ask |-> 1010000]))}

PlanSignal(side, entry, sl, tp, assigned) ==
    With(Res(Signal(XAUUSD, "M15", SignalAction("enter"), side, 6800, entry, sl, tp,
                    None, None, ReasonEnterA, None, <<>>)), LAMBDA signal :
        IF assigned THEN [signal EXCEPT !.action = SignalAction("enter")] ELSE signal)

CreatePlan ==
    /\ unit = NoUnit
    /\ \E side \in PlanSides, entry \in PlanPrices, sl \in PlanStops, tp \in PlanTargets,
          quote \in PlanQuotes, assigned \in BOOLEAN :
           Called([fn |-> "create_plan",
                   signal |-> PlanSignal(side, entry, sl, tp, assigned),
                   quote |-> quote,
                   result |-> create_plan(UnitRiskParameters,
                                          PlanSignal(side, entry, sl, tp, assigned),
                                          quote, None)])

\* features handed to IntradaySignalAgent._fallback_signal: each key absent
\* or one of a few values around the thresholds
FeatureChoices ==
    [close : {None, Some(2010 * PS)},
     ema_fast : {None, Some(1990 * PS), Some(2000 * PS), Some(2005 * PS)},
     ema_slow : {None, Some(2000 * PS)},
     atr : {None, Some(5 * PS)},
     rvol : {None, Some(PS), Some(18000), Some(20000)},
     donchian_upper : {None, Some(2008 * PS), Some(2020 * PS)},
     donchian_lower : {None, Some(1980 * PS), Some(2010 * PS)}]

\* the dict that holds the keys that are present
FeatureDict(choice) ==
    [k \in {key \in DOMAIN choice : ~IsNone(choice[key])} |-> Val(choice[k])]

FallbackSignalA ==
    /\ unit = NoUnit
    /\ \E choice \in FeatureChoices :
          Called([fn |-> "fallback_signal_a",
                  features |-> FeatureDict(choice),
                  thresholds |-> AgentThresholds,
                  result |-> fallback_signal_a(AgentThresholds, Some(UnitRiskParameters),
                                               XAUUSD, "M15", FeatureDict(choice),
                                               None)])

\* what the signal advisor may answer to a call made on its own: each key
\* present or absent, known and unknown values, confidence inside, outside
\* and not a number
DecisionChoices ==
    [action : {None, Some("enter"), Some("manage"), Some("hold")},
     side : {None, Some("buy"), Some("long")},
     confidence : {None, Some([numeric |-> TRUE, v |-> 9000]),
                   Some([numeric |-> TRUE, v |-> 15000]),
                   Some([numeric |-> TRUE, v |-> -2000]),
                   Some([numeric |-> FALSE, v |-> 0])},
     reason : {None, Some(Reason("ok", 2)), Some(Reason("advisor sees a breakout", 23))}]
UnitResponses ==
    {Response(kind, EmptyDict) : kind \in {"raises", "non_json"}}
       \cup {Response("object", FeatureDict(choice)) : choice \in DecisionChoices}
BreakoutFeatures ==
    [k \in {"close", "ema_50", "ema_200", "atr", "rvol", "donchian_upper",
            "donchian_lower"} |->
        CASE k = "close" -> 2010 * PS
          [] k = "ema_50" -> 2005 * PS
          [] k = "ema_200" -> 2000 * PS
          [] k = "atr" -> 5 * PS
          [] k = "rvol" -> 20000
          [] k = "donchian_upper" -> 2008 * PS
          [] OTHER -> 1980 * PS]
UnitThresholds(variant) ==
    IF variant = "intraday" THEN AgentThresholds ELSE SwingThresholds
GenerateSignal ==
    /\ unit = NoUnit
    /\ \E variant \in Variants, llm \in BOOLEAN, features \in {EmptyDict, BreakoutFeatures} :
          \E resp \in AdvisorResponses(llm, {}) \cup (IF llm THEN UnitResponses ELSE {}) :
             Called([fn |-> "generate_signal", variant |-> variant, llm |-> llm,
                     resp |-> resp, features |-> features,
                     result |-> generate_signal(variant, llm, resp, UnitThresholds(variant),
                                                Some(UnitRiskParameters), XAUUSD, "M15",
                                                features, 0, None)])

\* decide() called on its own: balances on both sides of and on the two
\* thresholds, any preferred value, and the advisor's answers
DecideBalances == {0, 2999, 3000, 3500, 4999, 5000, 8000}
DecidePreferred == {None, Some("intraday"), Some("swing"), Some("scalping")}
DecideObjects ==
    {EmptyDict, [k \in {"scenario"} |-> "SWING"], [k \in {"scenario"} |-> "scalping"]}
DecideResponses ==
    {Response(kind, EmptyDict) : kind \in {"raises", "empty", "non_json", "non_object"}}
       \cup {Response("object", obj) : obj \in DecideObjects}
Decide ==
    /\ unit = NoUnit
    /\ \E balance \in DecideBalances, preferred \in DecidePreferred, llm \in BOOLEAN :
          \E resp \in IF llm THEN DecideResponses ELSE {NoResponse} :
             Called([fn |-> "decide", llm |-> llm, resp |-> resp, balance |-> balance,
                     preferred |-> preferred,
                     result |-> decide(llm, resp,
                                       [EmptyAccount EXCEPT !.account_balance = Some(balance)],
                                       preferred)])

\* _position_size called on its own with the RiskParameters IDLE builds from
\* an account snapshot and governance adjustments and SETUP then updates,
\* for one entry and two stops
SizingAccounts ==
    {[EmptyAccount EXCEPT !.account_balance = balance, !.risk_per_trade = risk,
                          !.max_position = limit] :
        balance \in {None, Some(4000), Some(-100)},
        risk \in {None, Some(50), Some(20000)},
        limit \in {None, Some(50), Some(20000)}}
SizingAdjustments ==
    {EmptyDict, [k \in {"risk_per_trade"} |-> 80], [k \in {"max_position"} |-> 500]}
SizingEntry == 2000 * PS
SizingStops == {0, 1980 * PS, 1990 * PS, 19995000, SizingEntry, 2010 * PS}
CycleRiskParameters(variant, account_state, adjustments) ==
    update_risk_parameters(variant,
                           build_risk_parameters(variant, account_state, adjustments),
                           adjustments)
PositionSize ==
    /\ unit = NoUnit
    /\ \E variant \in Variants, account_state \in SizingAccounts,
          adjustments \in SizingAdjustments, s1 \in SizingStops, s2 \in SizingStops :
          With(CycleRiskParameters(variant, account_state, adjustments), LAMBDA p :
             Called([fn |-> "position_size", p |-> p, entry |-> SizingEntry,
                     s1 |-> s1, s2 |-> s2,
                     r1 |-> position_size(p, OrderSide("buy"), SizingEntry, s1),
                     r2 |-> position_size(p, OrderSide("buy"), SizingEntry, s2)]))

\* the indicator functions called on their own with one period, on every
\* series of one to IndicatorLen bars; Quiet is a bar without volume
Quiet == Bar(100000, 105000, 95000, 100000, 0)
IndicatorLen == 3
IndicatorPeriods == {1, 2, 5}
IndicatorBars == {Flat, Up, Down, Quiet}
IndicatorSeries ==
    UNION {[1..n -> IndicatorBars] : n \in 1..IndicatorLen}
Indicators ==
    /\ unit = NoUnit
    /\ \E rows \in IndicatorSeries, period \in IndicatorPeriods :
          Called([fn |-> "indicators", rows |-> rows, period |-> period,
                  ema |-> ema(Column(rows, "close"), period),
                  atr |-> atr(BarList(rows, OHLCV), period),
                  rvol |-> relative_volume(Column(rows, "volume"), period),
                  donchian |-> donchian_channels(BarList(rows, OHLCV), period)])

NextUnit ==
    \/ CreatePlan
    \/ FallbackSignalA
    \/ GenerateSignal
    \/ Decide
    \/ PositionSize
    \/ Indicators

SpecUnit == NoCycle /\ [][NextUnit]_vars

\* ------------------------------------------------------------------ claims
Terminal(c) == pc[c] \in {"END", "RAISED"}
NoAdvisor == ~graph.gov_llm /\ ~graph.sig_llm
ShortPath == <<"IDLE", "SETUP", "ENTER", "SUMMARY">>
FullPath == <<"IDLE", "SETUP", "ENTER", "MANAGE", "EXIT", "SUMMARY">>
\* q is s or a beginning of s
IsPrefix(q, s) == Len(q) <= Len(s) /\ \A i \in 1..Len(q) : q[i] = s[i]
\* the signal ENTER left in the state of cycle c has this action
SignalAction_is(c, action) ==
    ~IsNone(st[c]["signal"]) /\ Val(st[c]["signal"]).action.value = action
MarketDataOf(c) == Val(Val(invoked[c])["market_data"])

\* a cycle aborted by a structural error: a signal without side or price
StructuralAbort(c) ==
    pc[c] = "RAISED" /\ Val(error[c]).exc = "ValueError"
       /\ Val(error[c]).node \in {"MANAGE", "EXIT"}

\* C1 (as the spec states it): a cycle that ended without a structural
\* error and whose signal has action ENTER has run IDLE, SETUP, ENTER,
\* MANAGE, EXIT, SUMMARY, each once and in that order; one whose signal has
\* any other action has run IDLE, SETUP, ENTER, SUMMARY.
C1_RoutingRunsToSummary ==
    \A c \in Cycles :
        (Terminal(c) /\ ~StructuralAbort(c) /\ ~IsNone(st[c]["signal"])) =>
            IF SignalAction_is(c, "enter") THEN visited[c] = FullPath
            ELSE visited[c] = ShortPath

\* C2 (as the spec states it): with no advisor, a positive account balance
\* and a non-empty bar series carrying open/high/low/close/volume, no node
\* of a cycle raises (so the cycle reaches SUMMARY, through MANAGE and EXIT
\* when the fallback signal is ENTER).
ValidBars(c) ==
    /\ MarketDataOf(c).kind = "list"
    /\ Len(MarketDataOf(c).rows) > 0
    /\ OHLCV \subseteq MarketDataOf(c).cols
PositiveBalance(c) ==
    /\ ~IsNone(Val(Val(invoked[c])["account_state"]).account_balance)
    /\ Val(Val(Val(invoked[c])["account_state"]).account_balance) > 0
C2_FallbackCycleNeverRaises ==
    \A c \in Cycles :
        (pc[c] # "off" /\ NoAdvisor /\ PositiveBalance(c) /\ ValidBars(c)) =>
            pc[c] # "RAISED"

\* C3: the end-to-end run of the test (intraday graph, no advisor, the
\* 60-bar series, account_balance 4000).
IsTestRun(c) ==
    graph.variant = "intraday" /\ NoAdvisor /\ invoked[c] = Some(TestPayload)
ResultOf(c) == Val(st[c]["result"])

\* C3 (as the spec states it): the test run produces ENTER, visits all six
\* nodes and its result holds a signal, a risk assessment and a plan.
C3_TestRunEntersAndPlans ==
    \A c \in Cycles :
        (IsTestRun(c) /\ Terminal(c)) =>
            /\ pc[c] = "END"
            /\ visited[c] = FullPath
            /\ ~IsNone(ResultOf(c).signal)
            /\ Val(ResultOf(c).signal).action.value = "enter"
            /\ ~IsNone(ResultOf(c).risk_assessment)
            /\ ~IsNone(ResultOf(c).execution_plan)

\* C3 (amended): on the test run the fallback produces SKIP (relative
\* volume is below the threshold and the close is below the Donchian upper
\* band), no node raises, the cycle visits IDLE, SETUP, ENTER, SUMMARY in
\* that order, and the result holds a signal and non-empty features but no
\* risk assessment and no execution plan.
C3_TestRunSkips ==
    \A c \in Cycles :
        IsTestRun(c) =>
            /\ pc[c] # "RAISED"
            /\ IsPrefix(visited[c], ShortPath)
            /\ pc[c] = "END" =>
                  /\ visited[c] = ShortPath
                  /\ ~IsNone(ResultOf(c).signal)
                  /\ Val(ResultOf(c).signal).action.value = "skip"
                  /\ DOMAIN ResultOf(c).features # {}
                  /\ ResultOf(c).features["rvol"] < AgentThresholds.rvol_threshold
                  /\ ResultOf(c).features["close"] < ResultOf(c).features["donchian_upper"]
                  /\ IsNone(ResultOf(c).risk_assessment)
                  /\ IsNone(ResultOf(c).execution_plan)

C3_TestRunFinished == \E c \in Cycles : IsTestRun(c) /\ pc[c] = "END"


\* C4: a cycle of either variant, no advisor, whose bar series is absent
\* or empty.
NoBars(c) ==
    pc[c] # "off" /\ NoAdvisor
       /\ (MarketDataOf(c).kind = "none"
           \/ (MarketDataOf(c).kind = "list" /\ Len(MarketDataOf(c).rows) = 0))

\* C4: with absent or empty bars no node raises; the nodes run are IDLE,
\* SETUP, ENTER, SUMMARY in that order; SETUP leaves features empty; the
\* signal has action SKIP and no side; the result has features = {} and no
\* risk assessment, execution plan or execution report.
C4_EmptyBarsSkip ==
    \A c \in Cycles :
        NoBars(c) =>
            /\ pc[c] # "RAISED"
            /\ IsPrefix(visited[c], ShortPath)
            /\ pc[c] \in {"ENTER", "SUMMARY"} => IsNone(st[c]["features"])
            /\ pc[c] = "SUMMARY" =>
                  /\ SignalAction_is(c, "skip")
                  /\ IsNone(Val(st[c]["signal"]).side)
            /\ pc[c] = "END" =>
                  /\ visited[c] = ShortPath
                  /\ DOMAIN ResultOf(c).features = {}
                  /\ Val(ResultOf(c).signal).action.value = "skip"
                  /\ "side" \notin DOMAIN Val(ResultOf(c).signal)
                  /\ IsNone(ResultOf(c).risk_assessment)
                  /\ IsNone(ResultOf(c).execution_plan)
                  /\ IsNone(ResultOf(c).execution_report)

C4_EmptyBarsFinished ==
    \E c \in Cycles :
        NoBars(c) /\ pc[c] = "END" /\ MarketDataOf(c).kind = "list"
           /\ graph.variant = "swing"

\* C5: the signal ENTER produced has action ENTER and no side.
EnterWithoutSide(c) ==
    /\ pc[c] \notin {"off", "IDLE", "SETUP", "ENTER"}
    /\ SignalAction_is(c, "enter")
    /\ IsNone(Val(st[c]["signal"]).side)

\* C5: a cycle whose signal has action ENTER and no side goes from ENTER to
\* MANAGE and MANAGE raises ValueError to the caller: SUMMARY never runs,
\* and there is no execution plan and no result.
C5_EnterWithoutSideAborts ==
    \A c \in Cycles :
        EnterWithoutSide(c) =>
            /\ pc[c] \in {"MANAGE", "RAISED"}
            /\ pc[c] = "MANAGE" => visited[c] = <<"IDLE", "SETUP", "ENTER">>
            /\ pc[c] = "RAISED" =>
                  /\ visited[c] = <<"IDLE", "SETUP", "ENTER", "MANAGE">>
                  /\ error[c] = Some([node |-> "MANAGE", exc |-> "ValueError"])
            /\ IsNone(st[c]["execution_plan"])
            /\ IsNone(st[c]["result"])

C5_EnterWithoutSideAborted ==
    \E c \in Cycles : EnterWithoutSide(c) /\ pc[c] = "RAISED"

\* C6: the call of generate_signal that ENTER of cycle c made, and what the
\* agent returned and its deterministic fallback returns for its arguments
SignalCall(c) == Val(calls[c].generate_signal)
SignalCallMade(c) == graph.sig_llm /\ ~IsNone(calls[c].generate_signal)
SignalCallParsed(c) ==
    parse_decision(SignalCall(c).resp, SignalCall(c).symbol, SignalCall(c).timeframe,
                   SignalCall(c).features, SignalCall(c).regime,
                   IF graph.variant = "intraday" THEN ParseConfidenceA
                   ELSE ParseConfidenceB,
                   IF graph.variant = "intraday" THEN ReasonParseA ELSE ReasonParseB)
SignalCallReturned(c) ==
    generate_signal(graph.variant, TRUE, SignalCall(c).resp, SignalCall(c).thresholds,
                    SignalCall(c).rm, SignalCall(c).symbol, SignalCall(c).timeframe,
                    SignalCall(c).features, SignalCall(c).positions, SignalCall(c).regime)
SignalCallFallback(c) ==
    fallback_signal(graph.variant, SignalCall(c).thresholds, SignalCall(c).rm,
                    SignalCall(c).symbol, SignalCall(c).timeframe,
                    SignalCall(c).features, SignalCall(c).positions, SignalCall(c).regime)
\* the advisor raised, or returned empty text, text that is not JSON, JSON
\* that is no object, or an object that fails Signal validation
SignalAdvisorFailed(c) ==
    \/ SignalCall(c).resp.kind \in {"raises", "empty", "non_json", "non_object"}
    \/ SignalCall(c).resp.kind = "object" /\ ~SignalCallParsed(c).ok

\* C6 (as the spec states it): whenever the advisor of a signal agent
\* fails, generate_signal returns exactly what the deterministic fallback
\* returns for the same features, portfolio state and thresholds.
C6_SignalFallbackExact ==
    \A c \in Cycles :
        (SignalCallMade(c) /\ SignalAdvisorFailed(c)) =>
            SignalCallReturned(c) = SignalCallFallback(c)

\* C7: the call of decide that IDLE of cycle c made
GovernanceCall(c) == Val(calls[c].decide)
GovernanceCallMade(c) == graph.gov_llm /\ ~IsNone(calls[c].decide)
GovernanceCallReturned(c) ==
    decide(TRUE, GovernanceCall(c).resp, GovernanceCall(c).account_state,
           GovernanceCall(c).preferred)
GovernanceAdvisorFailed(c) ==
    GovernanceCall(c).resp.kind \in {"raises", "empty", "non_json", "non_object"}

\* C7 (as the spec states it): decide with an advisor never raises, and
\* whenever the advisor raises or returns an empty, malformed or non-JSON
\* response the decision is exactly the deterministic fallback decision
\* for the same account state and preference.
C7_GovernanceFallbackExact ==
    \A c \in Cycles :
        GovernanceCallMade(c) =>
            /\ GovernanceCallReturned(c).ok
            /\ GovernanceAdvisorFailed(c) =>
                  GovernanceCallReturned(c) =
                      Ok(fallback_decision(GovernanceCall(c).account_state,
                                           GovernanceCall(c).preferred))

\* C8 (as the spec states it): a cycle blocked in an advisor call that
\* never returns eventually takes the fallback and reaches SUMMARY.
C8_HungAdvisorTimesOut ==
    \A c \in Cycles :
        (waiting[c] # "none") ~>
            (\E i \in 1..Len(visited[c]) : visited[c][i] = "SUMMARY")

\* C9: each cycle that ended, ended as graph.invoke of its payload alone
\* ends: same outcome, same exception, same final state (the result
\* included), under every interleaving of the nodes of the cycles.
C9_CyclesIndependent ==
    \A c \in Cycles :
        Terminal(c) =>
            [pc |-> pc[c], state |-> st[c], error |-> error[c]]
                = RunAlone(graph, c, Val(invoked[c]))

\* both cycles ended, on different payloads, after SETUP changed the risk
\* parameters and thresholds of one and MANAGE ran in one
C9_BothCyclesEnded ==
    /\ \A c \in Cycles : Terminal(c)
    /\ \E c, d \in Cycles : invoked[c] # invoked[d]
    /\ graph.variant = "intraday"
    /\ \E c \in Cycles : Len(visited[c]) >= 4 /\ visited[c][4] = "MANAGE"
    /\ \E c \in Cycles :
          ~IsNone(st[c]["stats"]) /\ DOMAIN Val(st[c]["stats"]) # {}

\* C10: a cycle without advisor whose bar series is malformed: no list,
\* mapping or table, or non-empty rows that lack one of close, high, low,
\* volume
MalformedBars(c) ==
    pc[c] # "off" /\ NoAdvisor
       /\ (MarketDataOf(c).kind = "other"
           \/ (Len(MarketDataOf(c).rows) > 0
               /\ ~(RequiredCols \subseteq MarketDataOf(c).cols)))

\* C10 (as the spec states it): a cycle given a malformed bar series does
\* not raise; SETUP leaves features empty, the signal is SKIP and the
\* cycle reaches SUMMARY with result.features = {}.
C10_MalformedBarsSkip ==
    \A c \in Cycles :
        MalformedBars(c) =>
            /\ pc[c] # "RAISED"
            /\ IsPrefix(visited[c], ShortPath)
            /\ pc[c] = "END" =>
                  /\ DOMAIN ResultOf(c).features = {}
                  /\ Val(ResultOf(c).signal).action.value = "skip"

\* C11: create_plan was called with this signal and quote
PlanCall == unit.fn = "create_plan"
PlanReturned == PlanCall /\ unit.result.ok
\* the price the quote gives: ask for BUY, bid for SELL, then mid-price,
\* then the other side
QuotePrice == Res(price_from_quote(unit.signal, unit.quote))

\* C11 (as the spec states it): with a quote the trade of the plan is
\* priced from the quote whatever signal.entry_price holds; without a quote
\* it is priced at signal.entry_price and the call fails when that is absent.
C11_PlanPricedFromQuote ==
    PlanCall /\ ~IsNone(unit.signal.side) =>
        /\ (~IsNone(unit.quote) /\ unit.result.ok) =>
              Res(unit.result).trade.entry_price = QuotePrice
        /\ (IsNone(unit.quote) /\ unit.result.ok) =>
              Res(unit.result).trade.entry_price = Val(unit.signal.entry_price)
        /\ (IsNone(unit.quote) /\ IsNone(unit.signal.entry_price)) =>
              (~unit.result.ok /\ unit.result.exc = "ValueError")

\* C12: the price create_plan resolved for the trade
ResolvedPrice ==
    IF Truthy(unit.signal.entry_price) THEN Ok(Val(unit.signal.entry_price))
    ELSE price_from_quote(unit.signal, unit.quote)
PlanSideIs(side) == PyEq(Val(unit.signal.side), OrderSide(side))
\* the signal's take-profit is not strictly beyond the resolved price
TargetOnWrongSide ==
    /\ PlanCall /\ ~IsNone(unit.signal.side) /\ ~IsNone(unit.signal.take_profit)
    /\ ResolvedPrice.ok
    /\ \/ PlanSideIs("buy") /\ Val(unit.signal.take_profit) <= Res(ResolvedPrice)
       \/ PlanSideIs("sell") /\ Val(unit.signal.take_profit) >= Res(ResolvedPrice)

FallbackACall == unit.fn = "fallback_signal_a"
Has(key) == key \in DOMAIN unit.features
\* close, both EMAs, atr and rvol are present and rvol reaches the threshold
FallbackArmed ==
    /\ Has("close") /\ Has("ema_fast") /\ Has("ema_slow") /\ Has("atr") /\ Has("rvol")
    /\ unit.features["rvol"] >= unit.thresholds.rvol_threshold
ExpectBuy ==
    /\ FallbackArmed
    /\ unit.features["ema_fast"] > unit.features["ema_slow"]
    /\ Has("donchian_upper")
    /\ unit.features["close"] >= unit.features["donchian_upper"]
ExpectSell ==
    /\ FallbackArmed
    /\ unit.features["ema_fast"] < unit.features["ema_slow"]
    /\ Has("donchian_lower")
    /\ unit.features["close"] <= unit.features["donchian_lower"]
SignalIs(signal, action, side) ==
    /\ signal.action.value = action
    /\ side = "none" => IsNone(signal.side)
    /\ side # "none" => (~IsNone(signal.side) /\ Val(signal.side).value = side)

\* C13 (as the spec states it): the intraday fallback returns ENTER/BUY
\* exactly when armed, ema_fast > ema_slow and close >= donchian_upper;
\* ENTER/SELL exactly when armed, ema_fast < ema_slow and
\* close <= donchian_lower; SKIP with no side in every other case.
C13_IntradayFallbackRule ==
    FallbackACall =>
        /\ unit.result.ok
        /\ ExpectBuy => SignalIs(Res(unit.result), "enter", "buy")
        /\ (~ExpectBuy /\ ExpectSell) => SignalIs(Res(unit.result), "enter", "sell")
        /\ (~ExpectBuy /\ ~ExpectSell) => SignalIs(Res(unit.result), "skip", "none")

\* C14: a swing cycle without advisor whose account snapshot lists at least
\* max_positions open positions, after ENTER has run
FullBook(c) ==
    /\ graph.variant = "swing" /\ NoAdvisor
    /\ ~IsNone(st[c]["signal"])
    /\ Val(Val(invoked[c])["account_state"]).open_positions
          >= SwingThresholds.max_positions

\* C14 (as the spec states it): in a swing cycle with no advisor and at
\* least max_positions open positions in the account snapshot, the signal
\* is SKIP with no side and the position-limit reason, and the cycle runs
\* neither MANAGE nor EXIT and emits no execution plan.
C14_PositionLimitSkips ==
    \A c \in Cycles :
        FullBook(c) =>
            /\ SignalIs(Val(st[c]["signal"]), "skip", "none")
            /\ Val(st[c]["signal"]).reason = ensure_reason(ReasonLimitB)
            /\ IsPrefix(visited[c], ShortPath)
            /\ IsNone(st[c]["execution_plan"])

\* C15: a call of generate_signal on its own that returned a Signal, and
\* the decision object the advisor answered with
SignalReturned == unit.fn = "generate_signal" /\ unit.result.ok
AdvisorAnswered == SignalReturned /\ unit.llm /\ unit.resp.kind = "object"
Answer == unit.resp.obj
ParseConfidence(variant) ==
    IF variant = "intraday" THEN ParseConfidenceA ELSE ParseConfidenceB
WellFormed(signal) ==
    /\ signal.action.value \in SignalActionValues
    /\ IsNone(signal.side) \/ Val(signal.side).value \in OrderSideValues
    /\ signal.confidence >= 0 /\ signal.confidence <= PS
    /\ signal.reason.len >= ReasonMinLen
ExpectedConfidence ==
    IF "confidence" \notin DOMAIN Answer \/ ~Answer["confidence"].numeric
    THEN ParseConfidence(unit.variant)
    ELSE IF Answer["confidence"].v > PS THEN PS
    ELSE IF Answer["confidence"].v < 0 THEN 0
    ELSE Answer["confidence"].v

FallbackDecided == unit.fn = "decide" /\ ~unit.llm /\ unit.result.ok
PreferredOrIntraday ==
    IF IsNone(unit.preferred) THEN "intraday" ELSE Val(unit.preferred)

\* C16: the governance fallback gives "swing" for a balance of at least
\* 5000 whatever is preferred, the preferred scenario (or "intraday" when
\* none is given) for a balance of at least 3000 and below 5000, and
\* "intraday" for a balance below 3000 whatever is preferred.
C16_FallbackScenarioByBalance ==
    FallbackDecided =>
        /\ unit.balance >= 5000 => Res(unit.result).scenario = "swing"
        /\ (unit.balance >= 3000 /\ unit.balance < 5000)
              => Res(unit.result).scenario = PreferredOrIntraday
        /\ unit.balance < 3000 => Res(unit.result).scenario = "intraday"
        /\ (unit.balance = 3500 /\ IsNone(unit.preferred))
              => Res(unit.result).scenario = "intraday"
        /\ unit.balance = 8000 => Res(unit.result).scenario = "swing"
C16_CautionBandKeepsPreferred ==
    /\ FallbackDecided
    /\ unit.balance = 3000 /\ unit.preferred = Some("swing")
    /\ Res(unit.result).scenario = "swing"

\* C17 (as the spec states it): every GovernanceDecision decide() returns,
\* from the fallback or from the advisor's answer, has the scenario
\* "intraday" or "swing".
C17_ScenarioIsIntradayOrSwing ==
    (unit.fn = "decide" /\ unit.result.ok)
        => Res(unit.result).scenario \in {"intraday", "swing"}

\* C18, C19: _position_size called for two stops with the same parameters
SizingCall == unit.fn = "position_size"
MustFail(stop) ==
    \/ unit.p.account_balance <= 0
    \/ unit.p.risk_per_trade <= 0 \/ unit.p.risk_per_trade > PS
    \/ stop = unit.entry
WithinBounds(r) ==
    /\ unit.p.min_position <= Res(r).quantity
    /\ IsNone(unit.p.max_position) \/ Res(r).quantity <= Val(unit.p.max_position)

\* C18 (as the spec states it): for the RiskParameters a cycle holds after
\* IDLE and SETUP, a returned quantity is at least min_position and at most
\* max_position when that is set, and sizing fails when the balance is not
\* positive, risk_per_trade is outside (0, 1] or the stop equals the entry.
C18_QuantityWithinBounds ==
    SizingCall =>
        /\ MustFail(unit.s1) => ~unit.r1.ok
        /\ (unit.s1 # unit.entry /\ unit.r1.ok) => WithinBounds(unit.r1)

\* C19: with the RiskParameters fixed, of two stops different from the
\* entry the one nearer to the entry never gets the smaller quantity.
C19_SizeMonotoneInDistance ==
    (/\ SizingCall /\ unit.r1.ok /\ unit.r2.ok
     /\ Abs(unit.entry - unit.s1) <= Abs(unit.entry - unit.s2))
        => Res(unit.r1).quantity >= Res(unit.r2).quantity
C19_NearerStopLargerSize ==
    /\ SizingCall /\ unit.r1.ok /\ unit.r2.ok
    /\ Abs(unit.entry - unit.s1) < Abs(unit.entry - unit.s2)
    /\ Res(unit.r1).quantity > Res(unit.r2).quantity
    /\ Res(unit.r2).quantity > unit.p.min_position

\* C20: the four indicator functions called with one period on one series
IndicatorsCall == unit.fn = "indicators"
Aligned(series) == DOMAIN series = 1..Len(unit.rows) /\ \A i \in DOMAIN series : series[i] \in Int
MeanVolumeZero(i) ==
    SumSeq(Column(unit.rows, "volume"), WindowStart(i, unit.period), i) = 0

\* C20: for a period above zero and a series of n >= 1 bars, EMA, ATR, RVOL
\* and the three Donchian series have one number for each of the n bars,
\* the first EMA value is the first input, the first ATR value is high - low
\* of the first bar, and RVOL is 0.0 wherever the rolling mean volume is 0.
C20_IndicatorsAligned ==
    IndicatorsCall =>
        /\ unit.ema.ok /\ unit.atr.ok /\ unit.rvol.ok /\ unit.donchian.ok
        /\ Aligned(Res(unit.ema)) /\ Aligned(Res(unit.atr)) /\ Aligned(Res(unit.rvol))
        /\ Aligned(Res(unit.donchian).upper) /\ Aligned(Res(unit.donchian).lower)
        /\ Aligned(Res(unit.donchian).middle)
        /\ Res(unit.ema)[1] = unit.rows[1].close
        /\ Res(unit.atr)[1] = unit.rows[1].high - unit.rows[1].low
        /\ \A i \in 1..Len(unit.rows) : MeanVolumeZero(i) => Res(unit.rvol)[i] = 0
C20_QuietWindowInLongSeries ==
    /\ IndicatorsCall
    /\ Len(unit.rows) = IndicatorLen /\ unit.period = 2
    /\ MeanVolumeZero(2) /\ ~MeanVolumeZero(3)
    /\ Res(unit.rvol)[2] = 0 /\ Res(unit.rvol)[3] > 0
    /\ Res(unit.ema)[3] # unit.rows[3].close

\* C21: a cycle whose bars carry exactly open/high/low/close/volume, after
\* SETUP has run on them
Visited(c, node) == \E i \in 1..Len(visited[c]) : visited[c][i] = node
PlainBars(c) ==
    /\ pc[c] # "off"
    /\ MarketDataOf(c).kind = "list" /\ Len(MarketDataOf(c).rows) > 0
    /\ MarketDataOf(c).cols = OHLCV
StatKeys == {"atr_mean", "atr_recent", "rvol_mean", "rvol_recent"}

\* C21 (as the spec states it): after SETUP on a non-empty series of plain
\* bars the cycle's stats hold atr_mean, atr_recent, rvol_mean and
\* rvol_recent, and atr_recent and rvol_recent are the atr and rvol of the
\* features row.
C21_StatsFromEnrichedBars ==
    \A c \in Cycles :
        (PlainBars(c) /\ Visited(c, "SETUP") /\ pc[c] = "ENTER") =>
            /\ ~IsNone(st[c]["stats"])
            /\ StatKeys \subseteq DOMAIN Val(st[c]["stats"])
            /\ Val(st[c]["stats"])["atr_recent"] = Val(st[c]["features"])["atr"]
            /\ Val(st[c]["stats"])["rvol_recent"] = Val(st[c]["features"])["rvol"]

\* C22 (as the spec states it): the adjustments IDLE takes from the
\* governance decision reach SUMMARY in the cycle state, so with fallback
\* governance, which always sets risk_per_trade, the result record's
\* adjustments hold risk_per_trade and are never empty.
C22_AdjustmentsReachResult ==
    \A c \in Cycles :
        (pc[c] = "END" /\ ~graph.gov_llm) =>
            /\ DOMAIN ResultOf(c).adjustments # {}
            /\ "risk_per_trade" \in DOMAIN ResultOf(c).adjustments

\* C23: the risk_per_trade fallback governance sets for the account of
\* cycle c, and the one in force in the cycle's RiskParameters
AccountOf(c) == Val(Val(invoked[c])["account_state"])
GovernanceRisk(c) ==
    IF AccountOf(c).realized_drawdown > 40000 THEN 50
    ELSE IF ~IsNone(AccountOf(c).account_balance)
            /\ Val(AccountOf(c).account_balance) >= 5000 THEN 80
    ELSE 100
RiskInForce(c) == Val(heap.P[Val(st[c]["agents"]).risk_parameters]).risk_per_trade

\* C23 (as the spec states it): with fallback governance the risk_per_trade
\* in force when a position is sized at ENTER, MANAGE or EXIT never exceeds
\* the value governance set at IDLE (0.5% when realized drawdown > 4%,
\* otherwise 0.8% when balance >= 5000, otherwise 1.0%).
C23_RiskNeverAboveGovernance ==
    \A c \in Cycles :
        (~graph.gov_llm /\ pc[c] \in {"ENTER", "MANAGE", "EXIT"}) =>
            RiskInForce(c) <= GovernanceRisk(c)

\* C24: MANAGE of cycle c left a RiskReport that denies trading because of
\* the drawdown limit
TradingDenied(c) ==
    /\ ~IsNone(st[c]["risk_report"])
    /\ pc[c] # "END"
    /\ ~Val(st[c]["risk_report"]).can_trade
    /\ \E i \in 1..Len(Val(st[c]["risk_report"]).violations) :
          Val(st[c]["risk_report"]).violations[i] = "Drawdown limit reached"
ResultDenied(c) ==
    /\ pc[c] = "END" /\ ~IsNone(ResultOf(c).risk_report)
    /\ ~Val(ResultOf(c).risk_report).can_trade

\* C24 (as the spec states it): a cycle whose RiskReport from MANAGE denies
\* trading emits no execution plan: it ends with a result record whose
\* execution_plan and execution_report are null.
C24_DeniedCycleEmitsNoPlan ==
    \A c \in Cycles :
        /\ TradingDenied(c) => (pc[c] # "RAISED" /\ IsNone(st[c]["execution_plan"]))
        /\ ResultDenied(c) =>
              /\ IsNone(ResultOf(c).execution_plan)
              /\ IsNone(ResultOf(c).execution_report)

\* C25: what generate_signal returned to ENTER of cycle c, before the
\* backfill, and the feature row ENTER read
GeneratedSignal(c) ==
    generate_signal(graph.variant, graph.sig_llm, SignalCall(c).resp,
                    SignalCall(c).thresholds, SignalCall(c).rm, SignalCall(c).symbol,
                    SignalCall(c).timeframe, SignalCall(c).features,
                    SignalCall(c).positions, SignalCall(c).regime)
EnterReturnedSignal(c) == ~IsNone(calls[c].generate_signal) /\ GeneratedSignal(c).ok
Backfilled(c) == Val(st[c]["signal"])
SignedAtr(c) ==
    IF Val(Res(GeneratedSignal(c)).side).value = "buy"
    THEN SignalCall(c).features["atr"] ELSE -SignalCall(c).features["atr"]
UntouchedFields == {"action", "side", "confidence", "take_profit", "quantity"}

\* C25 (as the spec states it): after ENTER a signal whose entry_price was
\* absent has entry_price = close when close is present, a signal with a
\* side whose stop_loss was absent has stop_loss = close - atr (BUY) or
\* close + atr (SELL) when atr is present, every field the agent set is
\* unchanged, and the backfill never raises.
C25_BackfillFromFeatures ==
    \A c \in Cycles :
        EnterReturnedSignal(c) =>
            /\ ~(pc[c] = "RAISED" /\ Val(error[c]).node = "ENTER")
            /\ (pc[c] \in {"MANAGE", "EXIT", "SUMMARY"}) =>
                  /\ \A f \in UntouchedFields :
                        Backfilled(c)[f] = Res(GeneratedSignal(c))[f]
                  /\ ~IsNone(Res(GeneratedSignal(c)).entry_price)
                        => Backfilled(c).entry_price = Res(GeneratedSignal(c)).entry_price
                  /\ ~IsNone(Res(GeneratedSignal(c)).stop_loss)
                        => Backfilled(c).stop_loss = Res(GeneratedSignal(c)).stop_loss
                  /\ (IsNone(Res(GeneratedSignal(c)).entry_price)
                      /\ "close" \in DOMAIN SignalCall(c).features)
                        => Backfilled(c).entry_price = Some(SignalCall(c).features["close"])
                  /\ (/\ ~IsNone(Res(GeneratedSignal(c)).side)
                      /\ IsNone(Res(GeneratedSignal(c)).stop_loss)
                      /\ "atr" \in DOMAIN SignalCall(c).features
                      /\ "close" \in DOMAIN SignalCall(c).features
                      /\ IsNone(Res(GeneratedSignal(c)).entry_price))
                        => Backfilled(c).stop_loss
                              = Some(SignalCall(c).features["close"] - SignedAtr(c))

\* C26: the step in which SUMMARY of cycle c returns
SummaryReturns(c) == pc[c] = "SUMMARY" /\ pc'[c] = "END"
EchoedAsIs == {"symbol", "timeframe", "scenario"}

\* C26 (as the spec states it): after SUMMARY the cycle state holds no bar
\* series and no component bundle (market_data, market_frame and agents are
\* cleared), and the result record echoes symbol, timeframe, scenario,
\* governance, features, stats, signal, risk assessment, risk report,
\* execution plan, execution report and logs as they stood when SUMMARY was
\* entered.
C26_SummaryReleasesAndEchoes ==
    [][\A c \in Cycles :
          SummaryReturns(c) =>
             /\ IsNone(st'[c]["market_data"])
             /\ IsNone(st'[c]["market_frame"])
             /\ IsNone(st'[c]["agents"])
             /\ \A k \in EchoedAsIs : Val(st'[c]["result"])[k] = st[c][k]
             /\ Val(st'[c]["result"]).governance = serialize_governance(st[c]["governance"])
             /\ Val(st'[c]["result"]).features = StateGet(st[c], "features", EmptyDict)
             /\ Val(st'[c]["result"]).stats = StateGet(st[c], "stats", EmptyDict)
             /\ Val(st'[c]["result"]).signal = serialize_signal(st[c]["signal"])
             /\ Val(st'[c]["result"]).risk_assessment
                   = serialize_risk_assessment(st[c]["risk_assessment"])
             /\ Val(st'[c]["result"]).risk_report = serialize_risk_report(st[c]["risk_report"])
             /\ Val(st'[c]["result"]).execution_plan = serialize_plan(st[c]["execution_plan"])
             /\ Val(st'[c]["result"]).execution_report
                   = serialize_execution_report(st[c]["execution_report"])
             /\ Val(st'[c]["result"]).logs = StateGet(st[c], "logs", <<>>)]_vars

\* C27: the log trace of cycle c, the logs its caller supplied, and the
\* node that writes a log entry
LogsOf(c) == StateGet(st[c], "logs", <<>>)
CallerLogs(c) == StateGet(Val(invoked[c]), "logs", <<>>)
NodeOfEntry(entry) ==
    CASE entry[1] = "Governance scenario" -> "IDLE"
      [] entry[1] \in {"No market data", "Indicators updated"} -> "SETUP"
      [] entry[1] = "Signal" -> "ENTER"
      [] entry[1] \in {"No management", "Risk updated"} -> "MANAGE"
      [] entry[1] \in {"No execution", "Plan prepared"} -> "EXIT"
      [] OTHER -> "caller"
NewEntries(c) == SubSeq(LogsOf(c), Len(CallerLogs(c)) + 1, Len(LogsOf(c)))
IsLoggingNode(node) == node # "SUMMARY"

\* C27 (as the spec states it): in a cycle the log trace is the caller's
\* logs followed by exactly one entry of each of IDLE, SETUP, ENTER, MANAGE
\* and EXIT that was visited, in visit order, and result.logs is that
\* trace: 3 new entries on the skip path and 5 on the ENTER path.
C27_LogsAppendOnly ==
    \A c \in Cycles :
        (pc[c] # "off" /\ NoAdvisor /\ PositiveBalance(c) /\ ValidBars(c)) =>
            /\ IsPrefix(CallerLogs(c), LogsOf(c))
            /\ [i \in 1..Len(NewEntries(c)) |-> NodeOfEntry(NewEntries(c)[i])]
                  = SelectSeq(visited[c], IsLoggingNode)
            /\ pc[c] = "END" =>
                  /\ ResultOf(c).logs = LogsOf(c)
                  /\ visited[c] = ShortPath => Len(NewEntries(c)) = 3
                  /\ visited[c] = FullPath => Len(NewEntries(c)) = 5

\* C28: cycle c has run MANAGE and EXIT on a signal that needed management
ManagedThroughExit(c) ==
    /\ Visited(c, "MANAGE") /\ Visited(c, "EXIT")
    /\ pc[c] # "END"
    /\ ~IsNone(st[c]["risk_assessment"])
ResultAssessed(c) == pc[c] = "END" /\ ~IsNone(ResultOf(c).risk_assessment)

\* C28 (as the spec states it): in every cycle that reaches EXIT the
\* assessment embedded in the execution plan equals, field by field, the
\* assessment MANAGE produced: result.risk_assessment equals
\* result.execution_plan.assessment.
C28_PlanAssessmentEqualsManage ==
    \A c \in Cycles :
        /\ ManagedThroughExit(c) =>
              /\ pc[c] # "RAISED"
              /\ ~IsNone(st[c]["execution_plan"])
              /\ Val(st[c]["execution_plan"]).assessment = Val(st[c]["risk_assessment"])
        /\ ResultAssessed(c) =>
              /\ ~IsNone(ResultOf(c).execution_plan)
              /\ Val(ResultOf(c).execution_plan).assessment
                    = Val(ResultOf(c).risk_assessment)

\* ------------------------------------------------------------ api/main.py
\* auto_signal: governance decides without a preferred scenario, the
\* intraday graph runs when it says "intraday" and the swing graph otherwise;
\* the response carries decision.scenario at the top level
auto_signal(llm, resp, account_state) ==
    With(decide(llm, resp, account_state, None), LAMBDA d :
    IF ~d.ok THEN d
    ELSE Ok([scenario |-> Res(d).scenario,
             graph |-> IF Res(d).scenario = "intraday" THEN "intraday" ELSE "swing"]))

\* C29: cycle c has returned its result record
Reported(c) == pc[c] = "END" /\ "scenario" \in DOMAIN ResultOf(c)
\* the /signal/auto calls that would have run cycle c on this graph
AutoCalls(c) ==
    {a \in {auto_signal(graph.gov_llm, resp, Val(Val(invoked[c])["account_state"])) :
               resp \in {r \in AdvisorResponses(graph.gov_llm, GovernanceObjects) :
                            r.kind # "hang"}} :
        a.ok /\ Res(a).graph = graph.variant}

\* C29 (as the spec states it): the scenario in a cycle's result record
\* names the graph that ran the cycle, "intraday" on the intraday graph and
\* "swing" on the swing graph, for every account balance; and the scenario
\* /signal/auto returns at the top level equals result.scenario.
C29_ScenarioNamesVariant ==
    \A c \in Cycles :
        Reported(c) =>
            /\ ResultOf(c).scenario = Some(graph.variant)
            /\ \A a \in AutoCalls(c) : Some(Res(a).scenario) = ResultOf(c).scenario

\* C30: SETUP of cycle c has stored the enriched frame and its latest row
EnrichedFrame(c) ==
    /\ pc[c] \notin {"off", "END"}
    /\ ~IsNone(st[c]["market_frame"])
    /\ "donchian_upper" \in Val(st[c]["market_frame"]).cols
FrameOf(c) == Val(st[c]["market_frame"])
BarsOrdered(c) ==
    \A i \in 1..Len(FrameOf(c).rows) :
        /\ FrameOf(c).rows[i].low <= FrameOf(c).rows[i].close
        /\ FrameOf(c).rows[i].close <= FrameOf(c).rows[i].high
FeaturesOf(c) == Val(st[c]["features"])
\* the fallback's tests on the latest row
BreakoutUp(c) == FeaturesOf(c)["close"] >= FeaturesOf(c)["donchian_upper"]
BreakoutDown(c) == FeaturesOf(c)["close"] <= FeaturesOf(c)["donchian_lower"]
WindowHigh(c, i) ==
    MaxSeq(Column(FrameOf(c).rows, "high"), WindowStart(i, DonchianPeriod), i)
WindowLow(c, i) ==
    MinSeq(Column(FrameOf(c).rows, "low"), WindowStart(i, DonchianPeriod), i)

\* C30: for every bar i of an enriched series whose bars satisfy
\* low <= close <= high, donchian_lower[i] <= low[i] <= close[i] <= high[i]
\* <= donchian_upper[i] and donchian_mid[i] lies between the two bounds; so
\* in a cycle the fallback's breakout-up test (close >= donchian_upper) holds
\* only when the latest bar closes at its high and that high is the maximum
\* of the window, and breakout-down only when it closes at its low and that
\* low is the minimum of the window.
C30_DonchianBracketsBar ==
    \A c \in Cycles :
        (EnrichedFrame(c) /\ BarsOrdered(c)) =>
            LET f == FrameOf(c)
                n == Len(f.rows)
            IN  /\ \A i \in 1..n :
                      /\ f.donchian_lower[i] <= f.rows[i].low
                      /\ f.rows[i].low <= f.rows[i].close
                      /\ f.rows[i].close <= f.rows[i].high
                      /\ f.rows[i].high <= f.donchian_upper[i]
                      /\ f.donchian_lower[i] <= f.donchian_mid[i]
                      /\ f.donchian_mid[i] <= f.donchian_upper[i]
                /\ BreakoutUp(c) =>
                      /\ f.rows[n].close = f.rows[n].high
                      /\ f.rows[n].high = WindowHigh(c, n)
                /\ BreakoutDown(c) =>
                      /\ f.rows[n].close = f.rows[n].low
                      /\ f.rows[n].low = WindowLow(c, n)
\* a breakout up on the last of several bars, after a bar that closed inside
\* its channel
C30_BreakoutAtWindowHigh ==
    \E c \in Cycles :
        /\ EnrichedFrame(c) /\ BarsOrdered(c)
        /\ Len(FrameOf(c).rows) >= 2
        /\ BreakoutUp(c) /\ ~BreakoutDown(c)
        /\ FrameOf(c).rows[1].close < FrameOf(c).donchian_upper[1]
        /\ FrameOf(c).rows[1].high < WindowHigh(c, Len(FrameOf(c).rows))
====
